---- MODULE Spec2Model ----
(***************************************************************************)
(* Timetable scheduling engine of adaptive-timetable-generation-system:    *)
(* the grid state (add_entry / remove_entry), the greedy placer            *)
(* (schedule_greedy) and the validator (ConstraintValidator.validate).     *)
(*                                                                         *)
(* Days are numbered 1..NumDays in the order of config 'days'              *)
(* (Monday = 1 ... Saturday = 6).  A Python dict is a function whose       *)
(* DOMAIN is the set of keys present; a defaultdict(list) is read through  *)
(* Lookup, an absent key standing for the empty list.                      *)
(***************************************************************************)
EXTENDS Integers, Sequences, FiniteSets, TLC

VARIABLES
    timetable,                \* <<section, day, period>> -> list of entries
    teacher_schedule,         \* <<faculty_id, day, period>> -> list of entries
    room_schedule,            \* <<room_number, day, period>> -> list of entries
    subject_hours_allocated,  \* <<section, subject_code>> -> int
    last_op,                  \* the last grid call: [op, ok]
    inp,                      \* the arguments of schedule_greedy
    run,                      \* the locals of schedule_greedy and its position
    result,                   \* what schedule_greedy returned: [status, site]
    last_block,               \* the last loop iteration: what it placed
    previous,                 \* what the call before this one returned, and its grid
    reports                   \* the ValidationResults of the validate calls so far

grid_vars == <<timetable, teacher_schedule, room_schedule, subject_hours_allocated>>

\* batch=None of TimeSlotEntry
NoBatch == "None"

Lookup(idx, key) == IF key \in DOMAIN idx THEN idx[key] ELSE <<>>

Range(s) == {s[i] : i \in 1..Len(s)}

RECURSIVE FilterSeq(_, _)
\* [e for e in s if e != entry]
FilterSeq(s, entry) ==
    IF s = <<>> THEN <<>>
    ELSE IF Head(s) = entry THEN FilterSeq(Tail(s), entry)
         ELSE <<Head(s)>> \o FilterSeq(Tail(s), entry)

\* Body applied to the value v: a local variable assigned once and read
\* many times
With(v, Body(_)) == Body(v)

\* d with key k bound to v (dict item assignment)
Put(d, k, v) == [x \in DOMAIN d \cup {k} |-> IF x = k THEN v ELSE d[x]]

\* del d[k]
Del(d, k) == [x \in DOMAIN d \ {k} |-> d[x]]

\* The four indexes as one value, so that a call is a function of the grid.
Grid(tt, ts, rs, hrs) == [tt |-> tt, ts |-> ts, rs |-> rs, hrs |-> hrs]

CurGrid == Grid(timetable, teacher_schedule, room_schedule, subject_hours_allocated)

SecKey(e) == <<e.section, e.day, e.period>>
FacKey(e) == <<e.faculty_id, e.day, e.period>>
RoomKey(e) == <<e.room_number, e.day, e.period>>

(***************************************************************************)
(* check_hard_constraints: the four rejection rules                        *)
(***************************************************************************)

\* 1. Section clash
SectionClash(g, entry) ==
    LET existing == Lookup(g.tt, SecKey(entry)) IN
    /\ existing # <<>>
    /\ IF (\A e \in Range(existing) : e.batch = NoBatch) /\ entry.batch = NoBatch
         THEN TRUE
       ELSE IF entry.batch # NoBatch
         THEN \E e \in Range(existing) : e.batch = entry.batch
       ELSE \* not entry.batch and any(e.batch for e in existing)
         \E e \in Range(existing) : e.batch # NoBatch

\* SameSubjectTwice comparing the slot instead of the day
SameSubjectTwice_SlotOnly(g, entry) ==
    /\ entry.subject_type = "theory"
    /\ ~entry.is_lab_continuation
    /\ \E e \in Range(Lookup(g.tt, SecKey(entry))) : e.subject_code = entry.subject_code

\* 2. Same subject twice in a day (theory only, continuations exempt)
SameSubjectTwice(g, entry) ==
    /\ entry.subject_type = "theory"
    /\ ~entry.is_lab_continuation
    /\ \E k \in DOMAIN g.tt :
          /\ k[1] = entry.section
          /\ k[2] = entry.day
          /\ \E e \in Range(g.tt[k]) : e.subject_code = entry.subject_code

\* 3. Teacher clash (batch exception)
TeacherClash(g, entry) ==
    \E e \in Range(Lookup(g.ts, FacKey(entry))) :
        ~(entry.batch # NoBatch /\ e.batch # NoBatch /\ entry.section = e.section)

\* RoomClash with the batch exception of the teacher rule
RoomClash_BatchExempt(g, entry) ==
    \E e \in Range(Lookup(g.rs, RoomKey(entry))) :
        ~(entry.batch # NoBatch /\ e.batch # NoBatch /\ entry.section = e.section)

\* 4. Room clash
RoomClash(g, entry) == Lookup(g.rs, RoomKey(entry)) # <<>>

check_hard_constraints(g, entry) ==
    /\ ~SectionClash(g, entry)
    /\ ~SameSubjectTwice(g, entry)
    /\ ~TeacherClash(g, entry)
    /\ ~RoomClash(g, entry)

\* The grid after the appends of add_entry (the accepted case)
Inserted(g, entry) ==
    Grid(Put(g.tt, SecKey(entry), Append(Lookup(g.tt, SecKey(entry)), entry)),
         Put(g.ts, FacKey(entry), Append(Lookup(g.ts, FacKey(entry)), entry)),
         Put(g.rs, RoomKey(entry), Append(Lookup(g.rs, RoomKey(entry)), entry)),
         [g.hrs EXCEPT ![<<entry.section, entry.subject_code>>] = @ + 1])

\* add_entry appending before it looks at the verdict
add_entry_InsertThenCheck(g, entry) ==
    [ok |-> check_hard_constraints(g, entry), g |-> Inserted(g, entry)]

\* add_entry: [ok, g]
add_entry(g, entry) ==
    IF check_hard_constraints(g, entry)
      THEN [ok |-> TRUE, g |-> Inserted(g, entry)]
      ELSE [ok |-> FALSE, g |-> g]

\* Filtered dropping the whole list of the slot instead of the one entry
Filtered_DropSlot(idx, k, entry) ==
    IF k \notin DOMAIN idx THEN idx ELSE Del(idx, k)

\* One index after remove_entry filtered the entry out of the list at k.
\* timetable deletes a key whose list became empty; the two defaultdicts
\* keep an empty list, which reads like an absent key.
Filtered(idx, k, entry) ==
    IF k \notin DOMAIN idx THEN idx
    ELSE LET rest == FilterSeq(idx[k], entry) IN
         IF rest = <<>> THEN Del(idx, k) ELSE Put(idx, k, rest)

\* remove_entry leaving the faculty index as it is
remove_entry_KeepsFaculty(g, entry) ==
    Grid(Filtered(g.tt, SecKey(entry), entry),
         g.ts,
         Filtered(g.rs, RoomKey(entry), entry),
         [g.hrs EXCEPT ![<<entry.section, entry.subject_code>>] = @ - 1])

remove_entry(g, entry) ==
    Grid(Filtered(g.tt, SecKey(entry), entry),
         Filtered(g.ts, FacKey(entry), entry),
         Filtered(g.rs, RoomKey(entry), entry),
         [g.hrs EXCEPT ![<<entry.section, entry.subject_code>>] = @ - 1])

(***************************************************************************)
(* Catalog values and the deterministic enumerators                        *)
(***************************************************************************)

\* config 'days' default: six working days; Wednesday and Thursday carry
\* the fixed slots
NumDays == 6
Days == 1..NumDays
Wednesday == 3
Thursday == 4

\* config 'periods_per_day' default
periods_per_day == 7

\* config 'max_consecutive_theory' default
max_consecutive_theory == 3

\* Python's order on the identifiers used (str comparison)
LexOrder ==
    <<"A", "AR", "AU", "B", "CL1", "CL2", "CR1", "CR2", "E1", "F1", "F2", "FM1", "FM2",
      "FY1", "FY2", "L1", "MP", "T1", "T2", "Y">>

Rank(id) == CHOOSE i \in 1..Len(LexOrder) : LexOrder[i] = id

RECURSIVE InsertSorted(_, _, _)
InsertSorted(s, x, key) ==
    IF s = <<>> THEN <<x>>
    ELSE IF key[Head(s)] <= key[x]
           THEN <<Head(s)>> \o InsertSorted(Tail(s), x, key)
           ELSE <<x>> \o s

RECURSIVE sorted(_, _)
\* sorted(s, key=...): stable, ascending
sorted(s, key) ==
    IF s = <<>> THEN <<>>
    ELSE InsertSorted(sorted(SubSeq(s, 1, Len(s) - 1), key), s[Len(s)], key)

SortedSections(sections) == sorted(sections, [x \in Range(sections) |-> Rank(x)])
SortedByCode(subjects) == sorted(subjects, [x \in Range(subjects) |-> Rank(x.code)])
SortedById(faculty_list) == sorted(faculty_list, [x \in Range(faculty_list) |-> Rank(x.id)])
SortedByNumber(room_list) == sorted(room_list, [x \in Range(room_list) |-> Rank(x.number)])

\* get_available_faculty: the qualified, free and available faculty, by id
get_available_faculty(g, subject_code, day, period, faculty_list, for_batch_lab, section) ==
    LET Avail(f) ==
            /\ subject_code \in f.subjects
            /\ LET existing == Lookup(g.ts, <<f.id, day, period>>) IN
               \/ existing = <<>>
               \/ /\ for_batch_lab
                  /\ \A e \in Range(existing) : e.batch # NoBatch /\ e.section = section
            /\ <<day, period>> \notin f.unavailable_slots
    IN SortedById(SelectSeq(SortedById(faculty_list), Avail))

\* get_available_rooms: the free rooms of a type, by number
get_available_rooms(g, room_type, day, period, room_list, fallback_to_any) ==
    LET Free(r) == Lookup(g.rs, <<r.number, day, period>>) = <<>>
        OfType(r) == (r.room_type = room_type \/ room_type = "any") /\ Free(r)
        Classroom(r) == r.room_type = "classroom" /\ Free(r)
        available == SelectSeq(SortedByNumber(room_list), OfType)
    IN IF available = <<>> /\ fallback_to_any
          /\ room_type \notin {"classroom", "computer_lab", "electronics_lab"}
         THEN SortedByNumber(SelectSeq(SortedByNumber(room_list), Classroom))
         ELSE SortedByNumber(available)

\* _get_room_type_for_subject; name_kind is the keyword found in subject.name
get_room_type_for_subject(subject) ==
    IF subject.subject_type = "lab"
      THEN (IF subject.name_kind = "electronics" THEN "electronics_lab" ELSE "computer_lab")
    ELSE IF subject.subject_type = "mini_project" THEN "computer_lab"
    ELSE IF subject.subject_type = "yoga" THEN "activity_room"
    ELSE IF subject.subject_type \in {"tyl", "9lpa"} THEN "seminar_hall"
    ELSE IF subject.subject_type = "club" THEN "activity_room"
    ELSE "classroom"

\* _assign_home_classrooms (the caller checks that the classrooms suffice)
assign_home_classrooms(sections, room_list) ==
    LET IsClassroom(r) == r.room_type = "classroom"
        classrooms == SortedByNumber(SelectSeq(room_list, IsClassroom))
        secs == SortedSections(sections)
    IN [x \in Range(sections) |->
          classrooms[CHOOSE i \in 1..Len(secs) : secs[i] = x].number]

EnoughClassrooms(sections, room_list) ==
    LET IsClassroom(r) == r.room_type = "classroom"
    IN Len(SelectSeq(room_list, IsClassroom)) >= Len(sections)

\* no room: the None of _select_room_for_subject
NoRoom == "None"

\* rooms[0].number if rooms else None
FirstRoom(rooms) == IF rooms # <<>> THEN rooms[1].number ELSE NoRoom

\* _select_room_for_subject taking the first free classroom for a theory-like
\* session without trying the section's home classroom
select_room_for_subject_FirstFree(g, section, subject, day, period, room_list, home_rooms) ==
    IF subject.subject_type \in {"theory", "audit", "tyl", "9lpa"}
      THEN FirstRoom(get_available_rooms(g, "classroom", day, period, room_list, FALSE))
      ELSE FirstRoom(get_available_rooms(g, get_room_type_for_subject(subject), day, period,
              room_list, subject.subject_type \in {"tyl", "9lpa", "yoga", "club", "audit"}))

\* _select_room_for_subject
select_room_for_subject(g, section, subject, day, period, room_list, home_rooms) ==
    IF subject.subject_type \in {"theory", "audit", "tyl", "9lpa"}
      THEN IF Lookup(g.rs, <<home_rooms[section], day, period>>) = <<>>
             THEN home_rooms[section]
             ELSE FirstRoom(get_available_rooms(g, "classroom", day, period, room_list, FALSE))
      ELSE FirstRoom(get_available_rooms(g, get_room_type_for_subject(subject), day, period,
              room_list, subject.subject_type \in {"tyl", "9lpa", "yoga", "club", "audit"}))

\* _is_theory_session
is_theory_session(subject) ==
    subject.subject_type \in {"theory", "audit", "tyl", "9lpa", "yoga", "club"}

\* _subject_duration
subject_duration(subject) ==
    IF subject.subject_type = "lab" THEN subject.lab_duration ELSE 1

\* _can_start_two_hour_block
can_start_two_hour_block(start_period) == start_period \in {1, 3, 5}

\* fixed_slot_types with the yoga slot one period early
fixed_slot_types_YogaAtFive ==
    [YOGA |-> <<<<Wednesday, 5>>>>,
     CLUB |-> <<<<Wednesday, 7>>>>,
     MP |-> <<<<Thursday, 6>>, <<Thursday, 7>>>>,
     PP1 |-> <<<<Thursday, 6>>, <<Thursday, 7>>>>]

\* fixed_slot_types of schedule_greedy: short_name -> [(day, period)]
fixed_slot_types ==
    [YOGA |-> <<<<Wednesday, 6>>>>,
     CLUB |-> <<<<Wednesday, 7>>>>,
     MP |-> <<<<Thursday, 6>>, <<Thursday, 7>>>>,
     PP1 |-> <<<<Thursday, 6>>, <<Thursday, 7>>>>]

\* TimeSlotEntry(...)
TimeSlotEntry(day, period, section, subject, faculty_id, room_number, batch, cont) ==
    [day |-> day, period |-> period, section |-> section,
     subject_code |-> subject.code, subject_type |-> subject.subject_type,
     faculty_id |-> faculty_id, room_number |-> room_number,
     batch |-> batch, is_lab_continuation |-> cont]

(***************************************************************************)
(* Block planner                                                           *)
(***************************************************************************)

SetMin(S) == CHOOSE x \in S : \A y \in S : x <= y
SetMax(S) == CHOOSE x \in S : \A y \in S : x >= y
Min2(a, b) == IF a <= b THEN a ELSE b
Max2(a, b) == IF a >= b THEN a ELSE b

RECURSIVE SumHours(_)
\* sum(int(s.hours_per_week) for s in subjects)
SumHours(subjects) ==
    IF subjects = <<>> THEN 0
    ELSE Head(subjects).hours_per_week + SumHours(Tail(subjects))

\* _build_day_targets
build_day_targets(required_periods) ==
    LET base == required_periods \div NumDays
        rem == required_periods % NumDays
    IN [d \in Days |-> base + (IF d - 1 < rem THEN 1 ELSE 0)]

\* _build_day_blocks, one day, without "Ensure we have enough slots for
\* target"
day_block_NoExpand(target, fixed_periods) ==
    LET has == fixed_periods # {}
        fixed_min == IF has THEN SetMin(fixed_periods) ELSE 0
        fixed_max == IF has THEN SetMax(fixed_periods) ELSE 0
        s0 == IF target >= 6 THEN 1 ELSE 2
        e0 == IF target >= 6 THEN target
              ELSE IF target = 5 THEN 6
              ELSE IF target = 4 THEN 5
              ELSE Min2(4, 2 + target - 1)
        s1 == IF has /\ fixed_min < s0 THEN fixed_min ELSE s0
        e1 == IF has /\ fixed_max > e0 THEN fixed_max ELSE e0
        s2 == IF has /\ fixed_min >= 5 /\ s1 > 2 THEN 2 ELSE s1
        e2 == IF has /\ fixed_min >= 5 THEN fixed_max ELSE e1
    IN <<s2, IF e2 > periods_per_day THEN periods_per_day ELSE e2>>

\* _build_day_blocks, one day: <<start_p, end_p>>
day_block(target, fixed_periods) ==
    LET has == fixed_periods # {}
        fixed_min == IF has THEN SetMin(fixed_periods) ELSE 0
        fixed_max == IF has THEN SetMax(fixed_periods) ELSE 0
        s0 == IF target >= 6 THEN 1 ELSE 2
        e0 == IF target >= 6 THEN target
              ELSE IF target = 5 THEN 6
              ELSE IF target = 4 THEN 5
              ELSE Min2(4, 2 + target - 1)
        s1 == IF has /\ fixed_min < s0 THEN fixed_min ELSE s0
        e1 == IF has /\ fixed_max > e0 THEN fixed_max ELSE e0
        s2 == IF has /\ fixed_min >= 5 /\ s1 > 2 THEN 2 ELSE s1
        e2 == IF has /\ fixed_min >= 5 THEN fixed_max ELSE e1
        e3 == IF e2 > periods_per_day THEN periods_per_day ELSE e2
    IN IF e3 - s2 + 1 < target
         THEN IF s2 > 1 THEN <<Max2(1, e3 - target + 1), e3>>
              ELSE <<s2, Min2(periods_per_day, s2 + target - 1)>>
         ELSE <<s2, e3>>

\* _build_day_blocks; fixed is the set of <<section, day, period>> placed
\* in the fixed phase
build_day_blocks(day_targets, section, fixed) ==
    [d \in Days |-> day_block(day_targets[d], {k[3] : k \in {x \in fixed : x[1] = section /\ x[2] = d}})]

(***************************************************************************)
(* Subject selector (smooth weighted round-robin)                          *)
(***************************************************************************)

\* _init_round_robin_state
init_round_robin_state(subjects, fixed_subject_codes) ==
    LET NotFixed(x) == x.code \notin fixed_subject_codes
        eligible == SortedByCode(SelectSeq(subjects, NotFixed))
        codes == [i \in 1..Len(eligible) |-> eligible[i].code]
        hours == [c \in Range(codes) |->
                    (CHOOSE x \in Range(eligible) : x.code = c).hours_per_week]
    IN [codes |-> codes, weights |-> hours, remaining |-> hours,
        current |-> [c \in Range(codes) |-> 0]]

Occupied(g, section, day, period) == <<section, day, period>> \in DOMAIN g.tt

\* _feasible_single_block without the faculty test
feasible_single_block_NoFacultyTest(g, section, subject, day, start_period, duration, faculty_list, room_list, home_rooms) ==
    \A p \in start_period..(start_period + duration - 1) :
        /\ ~Occupied(g, section, day, p)
        /\ select_room_for_subject(g, section, subject, day, p, room_list, home_rooms) # NoRoom

\* _feasible_single_block
feasible_single_block(g, section, subject, day, start_period, duration, faculty_list, room_list, home_rooms) ==
    \A p \in start_period..(start_period + duration - 1) :
        /\ ~Occupied(g, section, day, p)
        /\ get_available_faculty(g, subject.code, day, p, faculty_list, FALSE, section) # <<>>
        /\ select_room_for_subject(g, section, subject, day, p, room_list, home_rooms) # NoRoom

\* _feasible_parallel_batch_block
feasible_parallel_batch_block(g, section, subject, day, start_period, duration, batches, faculty_list, room_list) ==
    \A p \in start_period..(start_period + duration - 1) :
        /\ ~Occupied(g, section, day, p)
        /\ get_available_faculty(g, subject.code, day, p, faculty_list, TRUE, section) # <<>>
        /\ Len(get_available_rooms(g, get_room_type_for_subject(subject), day, p,
                                   room_list, FALSE)) >= Len(batches)

SubjectOf(subjects, code) == CHOOSE x \in Range(subjects) : x.code = code

IsParallelLab(subject) == subject.subject_type = "lab" /\ subject.batches_required

\* "No same theory subject twice in a day" of the selector
AlreadyToday(g, section, day, code) ==
    \E k \in DOMAIN g.tt :
        /\ k[1] = section
        /\ k[2] = day
        /\ \E e \in Range(g.tt[k]) : e.subject_code = code

\* The filters of one loop iteration of _select_subject_for_slot: the code
\* reaches the scoring line
Survives(g, ip, home_rooms, rr, section, day, period, end_p, code) ==
    LET subject == SubjectOf(ip.subjects, code)
        duration == subject_duration(subject)
        batches == ip.section_batches[section]
    IN /\ rr.remaining[code] >= duration
       /\ subject.subject_type = "theory" => ~AlreadyToday(g, section, day, code)
       /\ duration = 2 =>
             /\ period + 1 <= end_p
             /\ can_start_two_hour_block(period)
             /\ ~Occupied(g, section, day, period)
             /\ ~Occupied(g, section, day, period + 1)
       /\ IF IsParallelLab(subject)
            THEN /\ batches # <<>>
                 /\ feasible_parallel_batch_block(g, section, subject, day, period,
                        duration, batches, ip.faculty_list, ip.room_list)
            ELSE feasible_single_block(g, section, subject, day, period, duration,
                        ip.faculty_list, ip.room_list, home_rooms)

\* no choice: the None of the selector
NoChoice == "None"

RECURSIVE FoldBest_KeepsLast(_, _, _, _)
\* FoldBest taking a later code whose score equals the best one
FoldBest_KeepsLast(codes, score, best, lexical) ==
    IF codes = <<>> THEN best
    ELSE LET c == Head(codes)
             take == best = NoChoice \/ score[c] >= score[best]
         IN FoldBest_KeepsLast(Tail(codes), score, IF take THEN c ELSE best, lexical)

RECURSIVE FoldBest(_, _, _, _)
\* the running maximum of the selection loop over the codes in order;
\* lexical is the tie rule of `best` (the fallback keeps the first maximum)
FoldBest(codes, score, best, lexical) ==
    IF codes = <<>> THEN best
    ELSE LET c == Head(codes)
             take == \/ best = NoChoice
                     \/ score[c] > score[best]
                     \/ lexical /\ score[c] = score[best] /\ Rank(c) < Rank(best)
         IN FoldBest(Tail(codes), score, IF take THEN c ELSE best, lexical)

RECURSIVE SumWeights(_, _)
\* sum(weights[c] for c in active)
SumWeights(weights, cs) ==
    IF cs = <<>> THEN 0 ELSE weights[Head(cs)] + SumWeights(weights, Tail(cs))

\* the "Exceeds consecutive-theory" test of the selector
ExceedsTheory(subject, consecutive_theory) ==
    is_theory_session(subject)
    /\ consecutive_theory + subject_duration(subject) > max_consecutive_theory

\* the bookkeeping after a choice without the decrement of remaining
Charge_KeepsRemaining(rr, active, chosen, duration) ==
    [rr EXCEPT
        !.current = [c \in DOMAIN rr.current |->
            (IF c \in Range(active) THEN rr.current[c] + rr.weights[c] ELSE rr.current[c])
            - (IF c = chosen THEN SumWeights(rr.weights, active) ELSE 0)]]

\* the bookkeeping after a choice: current += weight for the active codes,
\* current[chosen] -= total_weight, remaining[chosen] -= duration
Charge(rr, active, chosen, duration) ==
    [rr EXCEPT
        !.current = [c \in DOMAIN rr.current |->
            (IF c \in Range(active) THEN rr.current[c] + rr.weights[c] ELSE rr.current[c])
            - (IF c = chosen THEN SumWeights(rr.weights, active) ELSE 0)],
        !.remaining[chosen] = @ - duration]

\* _select_subject_for_slot: [code, rr]; code = NoChoice leaves rr as it was
select_subject_for_slot(g, ip, home_rooms, rr, section, day, period, end_p, consecutive_theory) ==
    LET IsActive(c) == rr.remaining[c] > 0
        Exceeds(c) == ExceedsTheory(SubjectOf(ip.subjects, c), consecutive_theory)
        score == [c \in Range(rr.codes) |-> rr.current[c] + rr.weights[c]]
    IN With(SelectSeq(SelectSeq(rr.codes, IsActive),
                   LAMBDA c : Survives(g, ip, home_rooms, rr, section, day, period, end_p, c)),
            LAMBDA ok :
       With(FoldBest(SelectSeq(ok, LAMBDA c : ~Exceeds(c)), score, NoChoice, TRUE),
            LAMBDA best :
       With(IF best # NoChoice THEN best
            ELSE FoldBest(SelectSeq(ok, Exceeds), score, NoChoice, FALSE),
            LAMBDA chosen :
         IF chosen = NoChoice
           THEN [code |-> NoChoice, rr |-> rr]
           ELSE [code |-> chosen,
                 rr |-> Charge(rr, SelectSeq(rr.codes, IsActive), chosen,
                               subject_duration(SubjectOf(ip.subjects, chosen)))])))

(***************************************************************************)
(* Block placement primitives                                              *)
(***************************************************************************)

RECURSIVE Rollback(_, _)
\* for e in entries_added: self.remove_entry(e)
Rollback(g, entries_added) ==
    IF entries_added = <<>> THEN g
    ELSE Rollback(remove_entry(g, Head(entries_added)), Tail(entries_added))

\* A block request: [section, subject, day, start_period, duration, batches]
Block(section, subject, day, start_period, duration, batches) ==
    [section |-> section, subject |-> subject, day |-> day,
     start_period |-> start_period, duration |-> duration, batches |-> batches]

\* the failure exit of a placement loop returning False without the removal
Failed_KeepsAdded(g, added) == [ok |-> FALSE, g |-> g, added |-> <<>>]

\* the failure exit of a placement loop: roll back, return False
Failed(g, added) == [ok |-> FALSE, g |-> Rollback(g, added), added |-> <<>>]

RECURSIVE PlaceSingleFrom(_, _, _, _, _, _)
\* the loop of _place_single_block from period p on: [ok, g, added]
PlaceSingleFrom(g, added, p, b, ip, home_rooms) ==
    IF p > b.start_period + b.duration - 1
      THEN [ok |-> TRUE, g |-> g, added |-> added]
      ELSE
        With(get_available_faculty(g, b.subject.code, b.day, p, ip.faculty_list, FALSE,
                                   b.section),
             LAMBDA faculty :
        With(select_room_for_subject(g, b.section, b.subject, b.day, p, ip.room_list,
                                     home_rooms),
             LAMBDA room :
          IF faculty = <<>> \/ room = NoRoom
            THEN Failed(g, added)
            ELSE
              With(TimeSlotEntry(b.day, p, b.section, b.subject, faculty[1].id, room,
                                 NoBatch, p > b.start_period),
                   LAMBDA entry :
              With(add_entry(g, entry),
                   LAMBDA r :
                IF r.ok
                  THEN PlaceSingleFrom(r.g, Append(added, entry), p + 1, b, ip, home_rooms)
                  ELSE Failed(g, added)))))

\* _place_single_block
place_single_block(g, b, ip, home_rooms) ==
    PlaceSingleFrom(g, <<>>, b.start_period, b, ip, home_rooms)

RECURSIVE PlaceBatchesFrom(_, _, _, _, _, _, _)
\* the inner loop of _place_parallel_batch_block from batch index b_idx
\* (0-based) on, with the faculty and rooms fetched for period p
PlaceBatchesFrom(g, added, p, b_idx, b, faculty, rooms) ==
    IF b_idx >= Len(b.batches)
      THEN [ok |-> TRUE, g |-> g, added |-> added]
      ELSE
        With(TimeSlotEntry(b.day, p, b.section, b.subject,
                           faculty[(b_idx % Len(faculty)) + 1].id,
                           rooms[b_idx + 1].number, b.batches[b_idx + 1],
                           p > b.start_period),
             LAMBDA entry :
        With(add_entry(g, entry),
             LAMBDA res :
          IF res.ok
            THEN PlaceBatchesFrom(res.g, Append(added, entry), p, b_idx + 1, b,
                                  faculty, rooms)
            ELSE Failed(g, added)))

RECURSIVE PlaceParallelFrom(_, _, _, _, _)
\* the outer loop of _place_parallel_batch_block from period p on
PlaceParallelFrom(g, added, p, b, ip) ==
    IF p > b.start_period + b.duration - 1
      THEN [ok |-> TRUE, g |-> g, added |-> added]
      ELSE
        With(get_available_faculty(g, b.subject.code, b.day, p, ip.faculty_list, TRUE,
                                   b.section),
             LAMBDA faculty :
        With(get_available_rooms(g, get_room_type_for_subject(b.subject), b.day, p,
                                 ip.room_list, FALSE),
             LAMBDA rooms :
          IF faculty = <<>> \/ Len(rooms) < Len(b.batches)
            THEN Failed(g, added)
            ELSE
              With(PlaceBatchesFrom(g, added, p, 0, b, faculty, rooms),
                   LAMBDA res :
                IF res.ok THEN PlaceParallelFrom(res.g, res.added, p + 1, b, ip)
                ELSE res)))

\* _place_parallel_batch_block
place_parallel_batch_block(g, b, ip) == PlaceParallelFrom(g, <<>>, b.start_period, b, ip)

(***************************************************************************)
(* SpecGrid: the grid driven by arbitrary add_entry / remove_entry calls   *)
(***************************************************************************)

GridSections == {"A", "B"}
GridSlots == {<<1, 1>>, <<1, 2>>, <<2, 1>>}
GridRooms == {"R1", "R2"}
GridCodes == {"T1", "L1", "L2"}

\* subject_type of the catalog subject with this code
GridType(code) == IF code = "T1" THEN "theory" ELSE "lab"

\* (subject_code, faculty_id, batch, is_lab_continuation) of the entries drawn
GridShapes ==
    {<<"T1", "F1", NoBatch, FALSE>>, <<"T1", "F1", NoBatch, TRUE>>,
     <<"L1", "F2", "b1", FALSE>>, <<"L1", "F2", "b2", FALSE>>,
     <<"L2", "F2", "b2", FALSE>>, <<"L1", "F1", NoBatch, FALSE>>}

GridEntries ==
    {[day |-> sl[1], period |-> sl[2], section |-> sec, subject_code |-> sh[1],
      subject_type |-> GridType(sh[1]), faculty_id |-> sh[2], room_number |-> r,
      batch |-> sh[3], is_lab_continuation |-> sh[4]] :
        sec \in GridSections, sl \in GridSlots, r \in GridRooms, sh \in GridShapes}

\* Number of placements a grid may hold
MaxPlaced == 2

\* every entry stored in the section index
Placed(tt) == UNION {Range(tt[k]) : k \in DOMAIN tt}

NoOp == [op |-> "none", ok |-> TRUE]

greedy_vars == <<inp, run, result, last_block, previous, reports>>

\* no schedule_greedy call
NoInput == [sections |-> <<>>]
NotReturned == [status |-> "none", site |-> "none"]
NoBlock == [kind |-> "none"]

\* no earlier schedule_greedy call on this scheduler object
NoPrevious == [status |-> "none"]

\* the state of a new scheduler object after initialize_state
EmptyGrid(secs, codes) ==
    Grid(<<>>, <<>>, <<>>, [k \in secs \X codes |-> 0])

\* initialize_state leaving teacher_schedule as the call before left it
initialize_state_KeepsTeachers(g, secs, codes) ==
    Grid([k \in {x \in DOMAIN g.tt : x[1] \notin secs} |-> g.tt[k]],
         g.ts, <<>>,
         [k \in {x \in DOMAIN g.hrs : x[1] \notin secs} \cup (secs \X codes) |->
             IF k[1] \in secs THEN 0 ELSE g.hrs[k]])

\* initialize_state on a scheduler object in state g: the grids and the
\* counters of the given sections are emptied (the other sections keep
\* theirs), the faculty and the room index are replaced by empty ones
initialize_state(g, secs, codes) ==
    Grid([k \in {x \in DOMAIN g.tt : x[1] \notin secs} |-> g.tt[k]],
         <<>>, <<>>,
         [k \in {x \in DOMAIN g.hrs : x[1] \notin secs} \cup (secs \X codes) |->
             IF k[1] \in secs THEN 0 ELSE g.hrs[k]])

InitGrid ==
    /\ timetable = <<>>
    /\ teacher_schedule = <<>>
    /\ room_schedule = <<>>
    /\ subject_hours_allocated = [k \in GridSections \X GridCodes |-> 0]
    /\ last_op = NoOp
    /\ inp = NoInput
    /\ run = [phase |-> "idle"]
    /\ result = NotReturned
    /\ last_block = NoBlock
    /\ previous = NoPrevious
    /\ reports = <<>>

SetGrid(g) ==
    /\ timetable' = g.tt
    /\ teacher_schedule' = g.ts
    /\ room_schedule' = g.rs
    /\ subject_hours_allocated' = g.hrs

AddEntry ==
    \E entry \in GridEntries :
        /\ LET r == add_entry(CurGrid, entry) IN
           /\ r.ok => Cardinality(Placed(timetable)) < MaxPlaced
           /\ SetGrid(r.g)
           /\ last_op' = [op |-> "add", ok |-> r.ok]
           /\ UNCHANGED greedy_vars

\* remove_entry is called with entries added before (backtracking, rollback)
RemoveEntry ==
    \E entry \in Placed(timetable) :
        /\ SetGrid(remove_entry(CurGrid, entry))
        /\ last_op' = [op |-> "remove", ok |-> TRUE]
        /\ UNCHANGED greedy_vars

vars == <<timetable, teacher_schedule, room_schedule, subject_hours_allocated, last_op,
          inp, run, result, last_block, previous, reports>>

NextGrid == AddEntry \/ RemoveEntry

SpecGrid == InitGrid /\ [][NextGrid]_vars

(***************************************************************************)
(* Spec: one call of schedule_greedy, one loop iteration per step          *)
(***************************************************************************)

\* Largest hours_per_week drawn for the theory subjects T1 and T2
MaxTheoryHours == 4
MaxT2Hours == 2

\* (hours_per_week, lab_duration) drawn for the lab subject; lab_duration
\* defaults to 0 in the Subject dataclass and is 2 or 3 in the catalog
LabShapes == {<<0, 2>>, <<2, 2>>, <<3, 3>>, <<2, 1>>, <<3, 2>>, <<2, 0>>}

\* which fixed-slot subjects the catalog holds: none; yoga with a single
\* instructor; yoga with two instructors and the mini project
FixedConfigs == {"none", "yoga1", "all"}

Subject(code, short_name, subject_type, hours_per_week, lab_duration, batches_required) ==
    [code |-> code, short_name |-> short_name, subject_type |-> subject_type,
     hours_per_week |-> hours_per_week, lab_duration |-> lab_duration,
     batches_required |-> batches_required, name_kind |-> "computer"]

Faculty(id, subjects, unavailable_slots) ==
    [id |-> id, subjects |-> subjects, unavailable_slots |-> unavailable_slots]

Room(number, room_type) == [number |-> number, room_type |-> room_type]

\* the faculty pool and the room list drawn: the full ones; the room list
\* with a single classroom; the pool with no one qualified for T2
Pools == {"full", "one_classroom", "t2_unstaffed"}

\* the arguments of one schedule_greedy call
MkInput(nsec, h1, h2, lab, br, fx, pool) ==
    [sections |-> IF nsec = 1 THEN <<"A">> ELSE <<"B", "A">>,
     subjects |->
        <<Subject("T1", "T1", "theory", h1, 0, FALSE),
          Subject("T2", "T2", "theory", h2, 0, FALSE),
          Subject("L1", "L1", "lab", lab[1], lab[2], br)>>
        \o (IF fx # "none" THEN <<Subject("Y", "YOGA", "yoga", 1, 0, FALSE)>> ELSE <<>>)
        \o (IF fx = "all" THEN <<Subject("MP", "MP", "mini_project", 2, 0, FALSE)>> ELSE <<>>),
     faculty_list |->
        <<Faculty("F2", {"T1", "L1"}, {<<1, 2>>}),
          Faculty("F1", IF pool = "t2_unstaffed" THEN {"T1", "L1"} ELSE {"T1", "T2", "L1"}, {}),
          Faculty("FY1", {"Y"}, {}),
          Faculty("FM1", {"MP"}, {}),
          Faculty("FM2", {"MP"}, {})>>
        \o (IF fx = "all" THEN <<Faculty("FY2", {"Y"}, {})>> ELSE <<>>),
     room_list |->
        (IF pool = "one_classroom" THEN <<>> ELSE <<Room("CR2", "classroom")>>)
        \o <<Room("CL2", "computer_lab"), Room("AR", "activity_room"),
             Room("CR1", "classroom"), Room("CL1", "computer_lab")>>,
     section_batches |-> [x \in {"A", "B"} |-> IF x = "A" THEN <<"A1", "A2">> ELSE <<"B1", "B2">>]]

Inputs ==
    {MkInput(nsec, h1, h2, lab, br, fx, pool) :
        nsec \in 1..2, h1 \in 0..MaxTheoryHours, h2 \in 0..MaxT2Hours,
        lab \in LabShapes, br \in BOOLEAN, fx \in FixedConfigs, pool \in Pools}

Codes(ip) == {x.code : x \in Range(ip.subjects)}

Init ==
    /\ inp \in Inputs
    /\ timetable = <<>>
    /\ teacher_schedule = <<>>
    /\ room_schedule = <<>>
    /\ subject_hours_allocated = [k \in Range(inp.sections) \X Codes(inp) |-> 0]
    /\ last_op = NoOp
    /\ run = [phase |-> "start"]
    /\ result = NotReturned
    /\ last_block = NoBlock
    /\ previous = NoPrevious
    /\ reports = <<>>

IsFixedSubject(x) == x.short_name \in DOMAIN fixed_slot_types

RECURSIVE SlotJobs(_, _, _, _)
\* for idx, (day, period) in enumerate(slots)
SlotJobs(section, subject, slots, idx) ==
    IF idx >= Len(slots) THEN <<>>
    ELSE <<[section |-> section, code |-> subject.code, idx |-> idx,
            day |-> slots[idx + 1][1], period |-> slots[idx + 1][2]]>>
         \o SlotJobs(section, subject, slots, idx + 1)

RECURSIVE SubjectJobs(_, _)
SubjectJobs(section, subjects) ==
    IF subjects = <<>> THEN <<>>
    ELSE SlotJobs(section, Head(subjects), fixed_slot_types[Head(subjects).short_name], 0)
         \o SubjectJobs(section, Tail(subjects))

RECURSIVE FixedJobs(_, _)
\* the iterations of the fixed-slot loops, in order
FixedJobs(sections, subjects) ==
    IF sections = <<>> THEN <<>>
    ELSE SubjectJobs(Head(sections), SelectSeq(SortedByCode(subjects), IsFixedSubject))
         \o FixedJobs(Tail(sections), subjects)

Return(status, site) ==
    /\ result' = [status |-> status, site |-> site]
    /\ run' = [run EXCEPT !.phase = "done"]

\* _assign_home_classrooms returning normally where it raises: the caller
\* reports a failed run
RaiseNotEnoughClassrooms_ReturnsFalse ==
    /\ result' = [status |-> "failure", site |-> "home_rooms"]
    /\ run' = [phase |-> "done"]

\* raise ValueError("Not enough classrooms to assign one fixed theory room per section"): the
\* exception leaves schedule_greedy, which returns nothing
RaiseNotEnoughClassrooms ==
    /\ result' = [status |-> "error", site |-> "home_rooms"]
    /\ run' = [phase |-> "done"]

\* initialize_state, the lookup tables and _assign_home_classrooms
StartRun ==
    /\ run.phase = "start"
    /\ SetGrid(initialize_state(CurGrid, Range(inp.sections), Codes(inp)))
    /\ UNCHANGED <<inp, previous, reports, last_op, last_block>>
    /\ IF ~EnoughClassrooms(inp.sections, inp.room_list)
         THEN RaiseNotEnoughClassrooms
         ELSE /\ result' = result
              /\ run' = [phase |-> "fixed",
                         home_rooms |-> assign_home_classrooms(inp.sections, inp.room_list),
                         fixed_queue |-> FixedJobs(SortedSections(inp.sections), inp.subjects),
                         fixed |-> {},
                         fixed_subject_codes |->
                             {x.code : x \in {y \in Range(inp.subjects) : IsFixedSubject(y)}},
                         secs |-> SortedSections(inp.sections),
                         sec_idx |-> 0, day |-> 0, period |-> 0,
                         day_blocks |-> [d \in Days |-> <<0, 0>>],
                         rr_state |-> init_round_robin_state(<<>>, {}),
                         consecutive_theory |-> 0,
                         expired |-> FALSE]

\* FixedSlotUnavailable going on to the next fixed slot instead of returning
FixedSlotUnavailable_Continue(blk) ==
    /\ run' = [run EXCEPT !.fixed_queue = Tail(@)]
    /\ result' = result
    /\ UNCHANGED grid_vars
    /\ last_block' = [blk EXCEPT !.kind = "fixed_failed"]

\* "if not faculty or not room: ... return False, self.timetable" of the
\* fixed phase
FixedSlotUnavailable(blk) ==
    /\ Return("failure", "fixed")
    /\ UNCHANGED grid_vars
    /\ last_block' = [blk EXCEPT !.kind = "fixed_failed"]

\* one iteration of "1) Place fixed slots first"
PlaceFixedSlot ==
    /\ run.phase = "fixed"
    /\ run.fixed_queue # <<>>
    /\ UNCHANGED <<inp, previous, reports, last_op>>
    /\ \E job \in {Head(run.fixed_queue)} :
       \E subject \in {SubjectOf(inp.subjects, job.code)} :
       \E faculty \in {get_available_faculty(CurGrid, job.code, job.day, job.period,
                                             inp.faculty_list, FALSE, job.section)} :
       \E room \in {select_room_for_subject(CurGrid, job.section, subject, job.day,
                                            job.period, inp.room_list, run.home_rooms)} :
       \E blk \in {[kind |-> "fixed", section |-> job.section, code |-> job.code,
                    day |-> job.day, start_period |-> job.period, duration |-> 1,
                    end_p |-> job.period, batches |-> <<>>]} :
          IF faculty = <<>> \/ room = NoRoom
            THEN FixedSlotUnavailable(blk)
            ELSE \E r \in {add_entry(CurGrid,
                              TimeSlotEntry(job.day, job.period, job.section, subject,
                                            faculty[1].id, room, NoBatch, job.idx > 0))} :
                    /\ SetGrid(r.g)
                    /\ IF r.ok
                         THEN /\ run' = [run EXCEPT
                                    !.fixed_queue = Tail(@),
                                    !.fixed = @ \cup {<<job.section, job.day, job.period>>}]
                              /\ result' = result
                              /\ last_block' = blk
                         ELSE /\ Return("failure", "fixed")
                              /\ last_block' = [blk EXCEPT !.kind = "fixed_failed"]

\* the head of "for section in sorted(sections)" of step 2: targets, blocks
\* and round-robin state of the next section
EnterSection ==
    /\ \/ run.phase = "fixed" /\ run.fixed_queue = <<>>
       \/ run.phase = "fill" /\ run.day > NumDays /\ run.sec_idx < Len(run.secs)
    /\ \E blocks \in {build_day_blocks(build_day_targets(SumHours(inp.subjects)),
                                        run.secs[run.sec_idx + 1], run.fixed)} :
          run' = [run EXCEPT !.phase = "fill", !.sec_idx = @ + 1,
                             !.day = 1, !.period = blocks[1][1],
                             !.day_blocks = blocks,
                             !.rr_state = init_round_robin_state(inp.subjects,
                                                                 run.fixed_subject_codes),
                             !.consecutive_theory = 0]
    /\ UNCHANGED <<grid_vars, inp, previous, reports, last_op, result, last_block>>

\* the head of "for day in self.days": the next day's window
NextDay ==
    /\ run.phase = "fill"
    /\ run.day <= NumDays
    /\ run.period > run.day_blocks[run.day][2]
    /\ run' = [run EXCEPT !.day = @ + 1,
                          !.period = IF run.day < NumDays
                                       THEN run.day_blocks[run.day + 1][1] ELSE 0,
                          !.consecutive_theory = 0]
    /\ UNCHANGED <<grid_vars, inp, previous, reports, last_op, result, last_block>>

\* the body of one iteration once the selector returned a subject
PlaceChoice(blk, choice, subject) ==
    \E b \in {Block(blk.section, subject, blk.day, blk.start_period,
                    subject_duration(subject), inp.section_batches[blk.section])} :
    \E r \in {IF IsParallelLab(subject)
                THEN place_parallel_batch_block(CurGrid, b, inp)
                ELSE place_single_block(CurGrid, b, inp, run.home_rooms)} :
    \E placed \in {[blk EXCEPT
                      !.kind = IF IsParallelLab(subject) THEN "parallel" ELSE "single",
                      !.code = choice.code, !.duration = b.duration,
                      !.batches = b.batches]} :
        /\ SetGrid(r.g)
        /\ IF r.ok
             THEN /\ run' = [run EXCEPT
                        !.period = @ + 1,
                        !.rr_state = choice.rr,
                        !.consecutive_theory =
                            IF is_theory_session(subject) THEN @ + b.duration ELSE 0]
                  /\ result' = result
                  /\ last_block' = placed
             ELSE /\ result' = [status |-> "failure", site |-> "place"]
                  /\ run' = [run EXCEPT !.phase = "done", !.rr_state = choice.rr]
                  /\ last_block' = [placed EXCEPT !.kind = "place_failed"]

\* one iteration of "for period in range(start_p, end_p + 1)"
FillPeriod ==
    /\ run.phase = "fill"
    /\ run.day <= NumDays
    /\ run.period <= run.day_blocks[run.day][2]
    /\ UNCHANGED <<inp, previous, reports, last_op>>
    /\ \E blk \in {[kind |-> "skip", section |-> run.secs[run.sec_idx], code |-> NoChoice,
                    day |-> run.day, start_period |-> run.period, duration |-> 0,
                    end_p |-> run.day_blocks[run.day][2], batches |-> <<>>]} :
          IF Occupied(CurGrid, blk.section, blk.day, blk.start_period)
            THEN \* "Fixed slot already placed"
              /\ run' = [run EXCEPT
                    !.period = @ + 1,
                    !.consecutive_theory =
                        IF \E e \in Range(timetable[<<blk.section, blk.day, blk.start_period>>]) :
                              is_theory_session(SubjectOf(inp.subjects, e.subject_code))
                          THEN @ + 1 ELSE 0]
              /\ UNCHANGED <<grid_vars, result>>
              /\ last_block' = blk
            ELSE
              \E choice \in {select_subject_for_slot(CurGrid, inp, run.home_rooms,
                                run.rr_state, blk.section, blk.day, blk.start_period,
                                blk.end_p, run.consecutive_theory)} :
                 IF choice.code = NoChoice
                   THEN /\ run' = [run EXCEPT !.period = @ + 1, !.consecutive_theory = 0]
                        /\ UNCHANGED <<grid_vars, result>>
                        /\ last_block' = [blk EXCEPT !.kind = "nochoice"]
                   ELSE PlaceChoice(blk, choice, SubjectOf(inp.subjects, choice.code))

\* "return True, self.timetable"
FinishRun ==
    /\ run.phase = "fill"
    /\ run.day > NumDays
    /\ run.sec_idx = Len(run.secs)
    /\ Return("success", "end")
    /\ UNCHANGED <<grid_vars, inp, previous, reports, last_op, last_block>>

\* time.time() - start_time passes self.timeout_seconds while the run has
\* filled a day block and not yet begun the next; schedule_greedy reads the
\* clock only to set generation_time, so no action reads run.expired
DeadlineExpires ==
    /\ run.phase = "fill"
    /\ run.day < NumDays
    /\ run.period > run.day_blocks[run.day][2]
    /\ ~run.expired
    /\ run' = [run EXCEPT !.expired = TRUE]
    /\ UNCHANGED <<grid_vars, inp, previous, reports, last_op, result, last_block>>

\* schedule_greedy is called a second time with the same arguments on the
\* same scheduler object, which holds what the first call left
ScheduleAgain ==
    /\ run.phase = "done"
    /\ previous = NoPrevious
    /\ previous' = [status |-> result.status, timetable |-> timetable,
                    entries |-> Placed(timetable)]
    /\ run' = [phase |-> "start"]
    /\ result' = NotReturned
    /\ last_block' = NoBlock
    /\ UNCHANGED <<grid_vars, inp, reports, last_op>>

(***************************************************************************)
(* ConstraintValidator.validate: the hard violations of a timetable        *)
(***************************************************************************)

\* "1. Section clash" for the i-th entry of a slot's list, the entries
\* before it being the existing ones
SectionClashAt(entries, i) ==
    LET existing == SubSeq(entries, 1, i - 1)
        entry == entries[i]
    IN /\ existing # <<>>
       /\ \/ (\A e \in Range(existing) : e.batch = NoBatch) /\ entry.batch = NoBatch
          \/ entry.batch # NoBatch /\ \E e \in Range(existing) : e.batch = entry.batch
          \/ entry.batch = NoBatch /\ \E e \in Range(existing) : e.batch # NoBatch

section_clash(tt) ==
    \E k \in DOMAIN tt : \E i \in 1..Len(tt[k]) : SectionClashAt(tt[k], i)

\* "2. Teacher clash (batch-parallel same subject only)": whichever of two
\* entries of one teacher and slot is scanned second is reported unless both
\* carry a batch and agree on section and subject
teacher_clash(tt) ==
    \E k1 \in DOMAIN tt, k2 \in DOMAIN tt :
        /\ k1[2] = k2[2]
        /\ k1[3] = k2[3]
        /\ \E i \in 1..Len(tt[k1]), j \in 1..Len(tt[k2]) :
              /\ <<k1, i>> # <<k2, j>>
              /\ tt[k1][i].faculty_id = tt[k2][j].faculty_id
              /\ ~(/\ tt[k1][i].batch # NoBatch
                   /\ tt[k2][j].batch # NoBatch
                   /\ k1[1] = k2[1]
                   /\ tt[k1][i].subject_code = tt[k2][j].subject_code)

\* "3. Room clash"
room_clash(tt) ==
    \E k1 \in DOMAIN tt, k2 \in DOMAIN tt :
        /\ k1[2] = k2[2]
        /\ k1[3] = k2[3]
        /\ \E i \in 1..Len(tt[k1]), j \in 1..Len(tt[k2]) :
              /\ <<k1, i>> # <<k2, j>>
              /\ tt[k1][i].room_number = tt[k2][j].room_number

\* subject_slots[section][code]: the slots of the section holding the code
subject_slots(tt, section, code) ==
    {k \in DOMAIN tt : k[1] = section /\ \E e \in Range(tt[k]) : e.subject_code = code}

\* CREDIT CHECK
credit_mismatch(tt, subjects, sections) ==
    \E section \in Range(sections), subject \in Range(subjects) :
        Cardinality(subject_slots(tt, section, subject.code)) # subject.hours_per_week

\* by_day[day] of the gap check
PeriodsOn(tt, section, day) == {k[3] : k \in {x \in DOMAIN tt : x[1] = section /\ x[2] = day}}

\* GAP CHECK
gap(tt, sections) ==
    \E section \in Range(sections), day \in Days :
        /\ Cardinality(PeriodsOn(tt, section, day)) > 1
        /\ \E p \in SetMin(PeriodsOn(tt, section, day))..SetMax(PeriodsOn(tt, section, day)) :
              p \notin PeriodsOn(tt, section, day)

\* labs[code][day]: the (period, entry) items of one lab on one day
LabItems(tt, section, code, day) ==
    UNION {{<<k[3], e>> : e \in {y \in Range(tt[k]) : y.subject_type = "lab"
                                                      /\ y.subject_code = code}} :
              k \in {x \in DOMAIN tt : x[1] = section /\ x[2] = day}}

\* one (code, day) of the LAB BLOCK CHECK
LabBlockBroken(items) ==
    LET periods == {it[1] : it \in items}
        p1 == SetMin(periods)
        p2 == SetMax(periods)
        batches_p1 == {it[2].batch : it \in {x \in items : x[1] = p1}} \ {NoBatch}
        batches_p2 == {it[2].batch : it \in {x \in items : x[1] = p2}} \ {NoBatch}
    IN \/ Cardinality(periods) # 2
       \/ p2 # p1 + 1
       \/ p1 \notin {1, 3, 5}
       \/ /\ batches_p1 # {} \/ batches_p2 # {}
          /\ batches_p1 = {} \/ batches_p2 = {} \/ batches_p1 # batches_p2

\* LAB BLOCK CHECK
lab_block(tt, sections) ==
    \E section \in Range(sections), day \in Days :
        \E code \in {e.subject_code : e \in Placed(tt)} :
            /\ LabItems(tt, section, code, day) # {}
            /\ LabBlockBroken(LabItems(tt, section, code, day))

\* the types of the hard violations validate reports
hard_violations(tt, subjects, sections) ==
    {t \in {"section_clash", "teacher_clash", "room_clash", "credit_mismatch", "gap",
            "lab_block"} :
        \/ t = "section_clash" /\ section_clash(tt)
        \/ t = "teacher_clash" /\ teacher_clash(tt)
        \/ t = "room_clash" /\ room_clash(tt)
        \/ t = "credit_mismatch" /\ credit_mismatch(tt, subjects, sections)
        \/ t = "gap" /\ gap(tt, sections)
        \/ t = "lab_block" /\ lab_block(tt, sections)}

\* ValidationResult.is_valid
is_valid(tt, subjects, sections) == hard_violations(tt, subjects, sections) = {}

(***************************************************************************)
(* ConstraintValidator.validate: the report.  A violation list is the set  *)
(* of its elements, each named by the place of the scan that appends it;   *)
(* keys is the order in which timetable.items() yields the sections.       *)
(***************************************************************************)

\* config.get('limit_first_period', 3)
limit_first_period == 3

\* the (slot key, list index) of every entry of the timetable
EntryPositions(tt) == UNION {{<<k, i>> : i \in 1..Len(tt[k])} : k \in DOMAIN tt}

IndexOf(keys, x) == CHOOSE i \in 1..Len(keys) : keys[i] = x

\* position q is scanned before position p by the MAIN SCAN (same slot)
ScannedBefore(keys, q, p) ==
    IF q[1] = p[1] THEN q[2] < p[2]
    ELSE IndexOf(keys, q[1][1]) < IndexOf(keys, p[1][1])

\* t_existing of the entry at position p: the entries of its teacher at its
\* slot that the scan has met before it
TeacherExisting(tt, keys, p) ==
    {q \in EntryPositions(tt) :
        /\ q[1][2] = p[1][2] /\ q[1][3] = p[1][3]
        /\ tt[q[1]][q[2]].faculty_id = tt[p[1]][p[2]].faculty_id
        /\ ScannedBefore(keys, q, p)}

\* "2. Teacher clash (batch-parallel same subject only)" for one entry
TeacherClashAt(tt, keys, p) ==
    /\ TeacherExisting(tt, keys, p) # {}
    /\ ~(/\ tt[p[1]][p[2]].batch # NoBatch
         /\ \A q \in TeacherExisting(tt, keys, p) :
               /\ tt[q[1]][q[2]].batch # NoBatch
               /\ tt[q[1]][q[2]].section = p[1][1]
               /\ tt[q[1]][q[2]].subject_code = tt[p[1]][p[2]].subject_code)

\* "3. Room clash" for one entry
RoomClashAt(tt, keys, p) ==
    \E q \in EntryPositions(tt) :
        /\ q[1][2] = p[1][2] /\ q[1][3] = p[1][3]
        /\ tt[q[1]][q[2]].room_number = tt[p[1]][p[2]].room_number
        /\ ScannedBefore(keys, q, p)

\* the violations the MAIN SCAN appends
scan_violations(tt, keys) ==
    {[type |-> "section_clash", at |-> p] :
        p \in {x \in EntryPositions(tt) : SectionClashAt(tt[x[1]], x[2])}}
    \cup {[type |-> "teacher_clash", at |-> p] :
        p \in {x \in EntryPositions(tt) : TeacherClashAt(tt, keys, x)}}
    \cup {[type |-> "room_clash", at |-> p] :
        p \in {x \in EntryPositions(tt) : RoomClashAt(tt, keys, x)}}

\* the violations the CREDIT CHECK appends
credit_violations(tt, subjects, sections) ==
    {[type |-> "credit_mismatch", at |-> <<section, subject.code>>] :
        <<section, subject>> \in
            {x \in Range(sections) \X Range(subjects) :
                Cardinality(subject_slots(tt, x[1], x[2].code)) # x[2].hours_per_week}}

\* the GAP CHECK appending for the first missing period of a day only
gap_violations_OnePerDay(tt, sections) ==
    {[type |-> "gap", at |-> x] :
        x \in {y \in Range(sections) \X Days \X (1..periods_per_day) :
                 /\ Cardinality(PeriodsOn(tt, y[1], y[2])) > 1
                 /\ y[3] >= SetMin(PeriodsOn(tt, y[1], y[2]))
                 /\ y[3] <= SetMax(PeriodsOn(tt, y[1], y[2]))
                 /\ y[3] \notin PeriodsOn(tt, y[1], y[2])
                 /\ \A q \in SetMin(PeriodsOn(tt, y[1], y[2]))..(y[3] - 1) :
                       q \in PeriodsOn(tt, y[1], y[2])}}

\* the violations the GAP CHECK appends
gap_violations(tt, sections) ==
    {[type |-> "gap", at |-> x] :
        x \in {y \in Range(sections) \X Days \X (1..periods_per_day) :
                 /\ Cardinality(PeriodsOn(tt, y[1], y[2])) > 1
                 /\ y[3] >= SetMin(PeriodsOn(tt, y[1], y[2]))
                 /\ y[3] <= SetMax(PeriodsOn(tt, y[1], y[2]))
                 /\ y[3] \notin PeriodsOn(tt, y[1], y[2])}}

\* the LAB BLOCK CHECK without the test of the block's first period
LabBlockReasons_NoStartCheck(items) ==
    LET periods == {it[1] : it \in items}
        p1 == SetMin(periods)
        p2 == SetMax(periods)
        batches_p1 == {it[2].batch : it \in {x \in items : x[1] = p1}} \ {NoBatch}
        batches_p2 == {it[2].batch : it \in {x \in items : x[1] = p2}} \ {NoBatch}
    IN IF Cardinality(periods) # 2 \/ p2 # p1 + 1
         THEN {"not_two_consecutive"}
         ELSE {r \in {"inconsistent_batches"} :
                 /\ batches_p1 # {} \/ batches_p2 # {}
                 /\ batches_p1 = {} \/ batches_p2 = {} \/ batches_p1 # batches_p2}

\* the checks of one (code, day) of the LAB BLOCK CHECK that append
LabBlockReasons(items) ==
    LET periods == {it[1] : it \in items}
        p1 == SetMin(periods)
        p2 == SetMax(periods)
        batches_p1 == {it[2].batch : it \in {x \in items : x[1] = p1}} \ {NoBatch}
        batches_p2 == {it[2].batch : it \in {x \in items : x[1] = p2}} \ {NoBatch}
    IN IF Cardinality(periods) # 2 \/ p2 # p1 + 1
         THEN {"not_two_consecutive"}
         ELSE {r \in {"invalid_start", "inconsistent_batches"} :
                 \/ r = "invalid_start" /\ p1 \notin {1, 3, 5}
                 \/ /\ r = "inconsistent_batches"
                    /\ batches_p1 # {} \/ batches_p2 # {}
                    /\ batches_p1 = {} \/ batches_p2 = {} \/ batches_p1 # batches_p2}

\* the violations the LAB BLOCK CHECK appends
lab_violations(tt, sections) ==
    UNION {{[type |-> "lab_block", at |-> <<x[1], x[2], x[3], r>>] :
               r \in LabBlockReasons(LabItems(tt, x[1], x[3], x[2]))} :
            x \in {y \in Range(sections) \X Days \X {e.subject_code : e \in Placed(tt)} :
                     LabItems(tt, y[1], y[3], y[2]) # {}}}

\* ValidationResult.hard_violations
hard_violation_list(tt, keys, subjects, sections) ==
    scan_violations(tt, keys) \cup credit_violations(tt, subjects, sections)
    \cup gap_violations(tt, sections) \cup lab_violations(tt, sections)

TheoryAt(tt, section, day, p) ==
    /\ <<section, day, p>> \in DOMAIN tt
    /\ \E e \in Range(tt[<<section, day, p>>]) : e.subject_type = "theory"

RECURSIVE consecutive(_, _, _, _)
\* the counter of the SOFT CONSTRAINTS loop after period p
consecutive(tt, section, day, p) ==
    IF p = 0 \/ ~TheoryAt(tt, section, day, p) THEN 0
    ELSE consecutive(tt, section, day, p - 1) + 1

\* sum(1 for d in self.days if (d, 1) in slots)
first_p(tt, section) == Cardinality({d \in Days : <<section, d, 1>> \in DOMAIN tt})

\* ValidationResult.soft_violations
soft_violation_list(tt) ==
    {[type |-> "consecutive_theory", at |-> x,
      penalty |-> (consecutive(tt, x[1], x[2], x[3]) - max_consecutive_theory) * 5] :
        x \in {y \in {k[1] : k \in DOMAIN tt} \X Days \X (1..periods_per_day) :
                 consecutive(tt, y[1], y[2], y[3]) > max_consecutive_theory}}
    \cup {[type |-> "early_slots", at |-> <<section>>,
           penalty |-> (first_p(tt, section) - limit_first_period) * 2] :
        section \in {s \in {k[1] : k \in DOMAIN tt} : first_p(tt, s) > limit_first_period}}

RECURSIVE SumPenalties(_)
\* sum(v.get('penalty', 1) for v in soft_violations)
SumPenalties(soft) ==
    IF soft = {} THEN 0
    ELSE LET v == CHOOSE x \in soft : TRUE
         IN v.penalty + SumPenalties(soft \ {v})

\* the score of line 198 with every soft violation counted as 1
score_UnitPenalty(hard, soft) == 1000 - Cardinality(hard) * 100 - Cardinality(soft)

\* score = 1000 - len(hard_violations) * 100 - sum(penalties)
score(hard, soft) == 1000 - Cardinality(hard) * 100 - SumPenalties(soft)

\* the ValidationResult built from the two lists
ValidationResult(hard, soft) ==
    [is_valid |-> hard = {}, hard_violations |-> hard, soft_violations |-> soft,
     score |-> score(hard, soft)]

\* ConstraintValidator.validate
validate(tt, keys, subjects, sections) ==
    ValidationResult(hard_violation_list(tt, keys, subjects, sections),
                     soft_violation_list(tt))

(***************************************************************************)
(* SpecValidate: validate called on a timetable, then called again         *)
(***************************************************************************)

\* `(day, p) in slots`, `timetable.get(section, {})`: the tests by which
\* validate reads a slot; the dict is the same after the test.  The variant
\* reads slots[(day, p)] of a defaultdict, which binds an absent key to []
Probe_Defaultdict(tt, key) == IF key \in DOMAIN tt THEN tt ELSE Put(tt, key, <<>>)

Probe(tt, key) == tt

\* the slots validate tests: those between lo and hi of the GAP CHECK and
\* every (day, p) of every section of the SOFT CONSTRAINTS
ProbedKeys(tt, sections) ==
    {y \in Range(sections) \X Days \X (1..periods_per_day) :
        /\ Cardinality(PeriodsOn(tt, y[1], y[2])) > 1
        /\ y[3] >= SetMin(PeriodsOn(tt, y[1], y[2]))
        /\ y[3] <= SetMax(PeriodsOn(tt, y[1], y[2]))}
    \cup ({k[1] : k \in DOMAIN tt} \X Days \X (1..periods_per_day))

\* the timetable after the tests of the slots ks: a test binds no key but
\* its own, so the tests add up key by key in whatever order they are made
ProbeAll(tt, ks) ==
    [x \in DOMAIN tt \cup UNION {DOMAIN Probe(tt, k) : k \in ks} |->
        IF x \in DOMAIN tt THEN tt[x] ELSE Probe(tt, x)[x]]

\* the timetable argument as validate leaves it
timetable_after_validate(tt, sections) == ProbeAll(tt, ProbedKeys(tt, sections))

\* validate is called at most this many times on one timetable
MaxValidations == 2

\* the periods of Monday and the number of further days with a first period
\* that the validated timetables draw from
MaxPeriod == 5
MaxEarly == 4

ValSubjects ==
    <<Subject("T1", "T1", "theory", 2, 0, FALSE), Subject("T2", "T2", "theory", 1, 0, FALSE),
      Subject("L1", "L1", "lab", 2, 2, TRUE)>>

\* section A's Monday: theory at the periods of P, T1 at the odd and T2 at
\* the even ones; with dup a second entry at the earliest of them
MondayOf(P, dup) ==
    [k \in {<<"A", 1, p>> : p \in P} |->
        <<TimeSlotEntry(1, k[3], "A", ValSubjects[IF k[3] % 2 = 1 THEN 1 ELSE 2],
                        "F1", "CR1", NoBatch, FALSE)>>
        \o (IF dup /\ k[3] = SetMin(P)
              THEN <<TimeSlotEntry(1, k[3], "A", ValSubjects[2], "F2", "CR2", NoBatch, FALSE)>>
              ELSE <<>>)]

\* section A's first periods of Wednesday and the days after it
EarlyOf(early) ==
    [k \in {<<"A", d, 1>> : d \in 3..Min2(2 + early, NumDays)} |->
        <<TimeSlotEntry(k[2], 1, "A", ValSubjects[1], "F1", "CR1", NoBatch, FALSE)>>]

LabShapesOfGrid == {"none", "block", "start2", "single", "mixed", "nobatch"}

LabEntry(p, batch, faculty, room, cont) ==
    TimeSlotEntry(2, p, "A", ValSubjects[3], faculty, room, batch, cont)

\* section A's Tuesday: the lab L1
LabOf(lab) ==
    IF lab = "block"
      THEN [k \in {<<"A", 2, 1>>, <<"A", 2, 2>>} |->
              <<LabEntry(k[3], "A1", "FL", "CL1", k[3] = 2),
                LabEntry(k[3], "A2", "FL", "CL2", k[3] = 2)>>]
    ELSE IF lab = "start2"
      THEN [k \in {<<"A", 2, 2>>, <<"A", 2, 3>>} |->
              <<LabEntry(k[3], "A1", "FL", "CL1", k[3] = 3),
                LabEntry(k[3], "A2", "FL", "CL2", k[3] = 3)>>]
    ELSE IF lab = "single"
      THEN [k \in {<<"A", 2, 1>>} |-> <<LabEntry(1, "A1", "FL", "CL1", FALSE)>>]
    ELSE IF lab = "mixed"
      THEN [k \in {<<"A", 2, 1>>, <<"A", 2, 2>>} |->
              IF k[3] = 1
                THEN <<LabEntry(1, "A1", "FL", "CL1", FALSE), LabEntry(1, "A2", "FL", "CL2", FALSE)>>
                ELSE <<LabEntry(2, "A1", "FL", "CL1", TRUE)>>]
    ELSE IF lab = "nobatch"
      THEN [k \in {<<"A", 2, 3>>, <<"A", 2, 4>>} |->
              <<LabEntry(k[3], NoBatch, "FL", "CL1", k[3] = 4)>>]
    ELSE <<>>

OtherShapes == {"none", "teacher", "room", "labteacher"}

\* section B: one theory entry sharing a teacher or a room with section A
OtherOf(other) ==
    IF other = "teacher"
      THEN [k \in {<<"B", 1, 1>>} |->
              <<TimeSlotEntry(1, 1, "B", ValSubjects[1], "F1", "CR2", NoBatch, FALSE)>>]
    ELSE IF other = "room"
      THEN [k \in {<<"B", 1, 1>>} |->
              <<TimeSlotEntry(1, 1, "B", ValSubjects[1], "F2", "CR1", NoBatch, FALSE)>>]
    ELSE IF other = "labteacher"
      THEN [k \in {<<"B", 2, 1>>} |->
              <<TimeSlotEntry(2, 1, "B", ValSubjects[1], "FL", "CR2", NoBatch, FALSE)>>]
    ELSE <<>>

\* the arguments of one validate call and the order of the timetable's keys
MkValInput(P, dup, early, lab, other, keys) ==
    [grid |-> MondayOf(P, dup) @@ EarlyOf(early) @@ LabOf(lab) @@ OtherOf(other),
     keys |-> IF other = "none" THEN <<"A">> ELSE keys,
     sections |-> IF other = "none" THEN <<"A">> ELSE keys,
     subjects |-> ValSubjects]

ValInputs ==
    {MkValInput(P, dup, early, lab, other, keys) :
        P \in SUBSET (1..MaxPeriod), dup \in BOOLEAN, early \in 0..MaxEarly,
        lab \in LabShapesOfGrid, other \in OtherShapes,
        keys \in {<<"A", "B">>, <<"B", "A">>}}

InitValidate ==
    /\ inp \in ValInputs
    /\ timetable = inp.grid
    /\ teacher_schedule = <<>>
    /\ room_schedule = <<>>
    /\ subject_hours_allocated = <<>>
    /\ last_op = NoOp
    /\ run = [phase |-> "idle"]
    /\ result = NotReturned
    /\ last_block = NoBlock
    /\ previous = NoPrevious
    /\ reports = <<>>

\* validator.validate(timetable, subjects_config, sections)
Validate ==
    /\ Len(reports) < MaxValidations
    /\ reports' = Append(reports, validate(timetable, inp.keys, inp.subjects, inp.sections))
    /\ timetable' = timetable_after_validate(timetable, inp.sections)
    /\ UNCHANGED <<teacher_schedule, room_schedule, subject_hours_allocated, last_op,
                   inp, run, result, last_block, previous>>

NextValidate == Validate

SpecValidate == InitValidate /\ [][NextValidate]_vars

(***************************************************************************)
(* The engine around one run: schedule, validate, emit                     *)
(***************************************************************************)

\* generate_timetable_cli after the scheduler returned: the grid is
\* validated, printed and saved, and (success, timetable) is returned with
\* the validation summary in the metadata.  A ValueError of the scheduler
\* leaves generate_timetable_cli before this point
EmitResult ==
    /\ run.phase = "done"
    /\ result.status \in {"success", "failure"}
    /\ \E report \in {validate(timetable, inp.sections, inp.subjects, inp.sections)} :
          /\ reports' = Append(reports, report)
          /\ run' = [phase |-> "emitted",
                     response |-> [success |-> result.status = "success",
                                   is_valid |-> report.is_valid,
                                   hard_violations |-> Cardinality(report.hard_violations)]]
    /\ timetable' = timetable_after_validate(timetable, inp.sections)
    /\ UNCHANGED <<teacher_schedule, room_schedule, subject_hours_allocated, last_op,
                   inp, result, last_block, previous>>

\* HybridScheduler.schedule around the run of its csp_scheduler:
\* schedule_with_backtracking is the greedy run itself (it only calls
\* schedule_greedy), its success is returned at once, and its failure leads
\* to ga_scheduler.schedule, whose success flag is any of the two.  stages
\* lists the searches that ran
HybridSchedule ==
    /\ run.phase = "done"
    /\ result.status \in {"success", "failure"}
    /\ IF result.status = "success"
         THEN run' = [phase |-> "hybrid", stages |-> <<"greedy">>, success |-> TRUE]
         ELSE \E ga_success \in BOOLEAN :
                 run' = [phase |-> "hybrid", stages |-> <<"greedy", "genetic">>,
                         success |-> ga_success]
    /\ UNCHANGED <<grid_vars, inp, previous, reports, last_op, result, last_block>>

Next ==
    \/ StartRun \/ PlaceFixedSlot \/ EnterSection \/ NextDay \/ FillPeriod \/ FinishRun
    \/ ScheduleAgain \/ EmitResult \/ DeadlineExpires \/ HybridSchedule

Spec == Init /\ [][Next]_vars

(***************************************************************************)
(* SpecBacktrack: one top-level call of _backtrack_schedule, its recursion *)
(* kept as a stack of frames, one loop iteration or one return per step    *)
(***************************************************************************)

\* subject.short_name.upper() on the short names of the catalog
Upper(short_name) ==
    IF short_name = "yoga" THEN "YOGA"
    ELSE IF short_name = "mp" THEN "MP"
    ELSE short_name

\* reserved_slots of _get_valid_slots_for_item
reserved_slots == {<<Wednesday, 6>>, <<Wednesday, 7>>, <<Thursday, 6>>, <<Thursday, 7>>}

fixed_subject_short_names == {"YOGA", "CLUB", "MP", "PP1"}

\* check_lab_continuity
check_lab_continuity(g, section, day, start_period, duration) ==
    /\ \A p \in start_period..(start_period + duration - 1) :
          p <= periods_per_day /\ <<section, day, p>> \notin DOMAIN g.tt
    /\ ~(start_period <= 4 /\ start_period + duration > 5)

\* the test of one (day, period) of _get_valid_slots_for_item
slot_is_valid(g, section, subject, duration, is_batch_lab, day, period) ==
    /\ \A p \in period..(period + duration - 1) :
          /\ <<section, day, p>> \in DOMAIN g.tt =>
                /\ \A e \in Range(g.tt[<<section, day, p>>]) : e.batch # NoBatch
                /\ is_batch_lab
          /\ Upper(subject.short_name) \notin fixed_subject_short_names =>
                <<day, p>> \notin reserved_slots
    /\ (duration > 1 /\ subject.subject_type = "lab") =>
          /\ period \notin {2, 4}
          /\ ~(period <= 4 /\ period + duration > 5)
          /\ check_lab_continuity(g, section, day, period, duration)

\* (day, period) for day in self.days, for period in 1..periods_per_day, in
\* the order of the two loops
DayPeriods ==
    [i \in 1..(NumDays * periods_per_day) |->
        <<((i - 1) \div periods_per_day) + 1, ((i - 1) % periods_per_day) + 1>>]

\* the two loops of _get_valid_slots_for_item from (day, period) on
SlotsFrom(g, section, subject, duration, is_batch_lab, day, period) ==
    SelectSeq(DayPeriods,
              LAMBDA s :
                 /\ s[1] > day \/ (s[1] = day /\ s[2] >= period)
                 /\ s[2] <= periods_per_day - duration + 1
                 /\ slot_is_valid(g, section, subject, duration, is_batch_lab, s[1], s[2]))

\* _get_valid_slots_for_item
get_valid_slots_for_item(g, section, subject, duration, is_batch_lab) ==
    SlotsFrom(g, section, subject, duration, is_batch_lab, 1, 1)

\* slot_penalty: period * 2 + self.days.index(day)
slot_penalty(slot) == slot[2] * 2 + (slot[1] - 1)

\* available_slots.sort(key=slot_penalty): stable, ascending; the slot at
\* place i has i - 1 slots before it, those of a smaller penalty and those
\* of the same penalty that stand earlier in the list
sort_by_penalty(slots) ==
    [i \in 1..Len(slots) |->
        slots[CHOOSE j \in 1..Len(slots) :
            Cardinality({k \in 1..Len(slots) :
                           \/ slot_penalty(slots[k]) < slot_penalty(slots[j])
                           \/ slot_penalty(slots[k]) = slot_penalty(slots[j]) /\ k < j})
              = i - 1]]

RECURSIVE BtPlaceFrom(_, _, _, _, _, _, _)
\* "for p in range(start_period, start_period + duration)" of one slot of
\* _backtrack_schedule from period p on: [ok, g, added]; a failure leaves
\* the entries added so far in the grid and in added
BtPlaceFrom(g, added, p, item, day, start_period, ip) ==
    IF p > start_period + item.duration - 1
      THEN [ok |-> Len(added) = item.duration, g |-> g, added |-> added]
      ELSE
        With(get_available_faculty(g, item.subject.code, day, p, ip.faculty_list, FALSE,
                                   NoBatch),
             LAMBDA faculty :
        With(get_available_rooms(g, get_room_type_for_subject(item.subject), day, p,
                                 ip.room_list, FALSE),
             LAMBDA rooms :
          IF faculty = <<>> \/ rooms = <<>>
            THEN [ok |-> FALSE, g |-> g, added |-> added]
            ELSE
              With(add_entry(g, TimeSlotEntry(day, p, item.section, item.subject,
                                              faculty[1].id, rooms[1].number, item.batch,
                                              p > start_period)),
                   LAMBDA r :
                IF r.ok
                  THEN BtPlaceFrom(r.g,
                           Append(added, TimeSlotEntry(day, p, item.section, item.subject,
                                              faculty[1].id, rooms[1].number, item.batch,
                                              p > start_period)),
                           p + 1, item, day, start_period, ip)
                  ELSE [ok |-> FALSE, g |-> g, added |-> added])))

\* "Backtrack - remove added entries" removing all of them but the first
remove_added_AllButFirst(g, entries_added) ==
    IF entries_added = <<>> THEN g ELSE Rollback(g, Tail(entries_added))

\* "Backtrack - remove added entries"
remove_added(g, entries_added) == Rollback(g, entries_added)

\* a queue item of _create_scheduling_queue
QueueItem(section, subject) ==
    [section |-> section, subject |-> subject, batch |-> NoBatch,
     duration |-> IF subject.subject_type = "lab" THEN 2 ELSE 1,
     is_parallel_lab |-> subject.subject_type = "lab" /\ subject.batches_required]

\* the activation of _backtrack_schedule(queue, index, ...) entered with the
\* grid g0
Frame(index, g0) ==
    [index |-> index, mode |-> "enter", slots |-> <<>>, pos |-> 0, entries_added |-> <<>>,
     g0 |-> g0]

AllSlots == Days \X (1..periods_per_day)

\* the faculty of the searches: F1 teaches the theory subjects and the mini
\* project, F2 the labs, each free at the slots given only
BtFaculty(theory_free, lab_free) ==
    <<Faculty("F1", {"T1", "T2", "MP"}, AllSlots \ theory_free),
      Faculty("F2", {"L1"}, AllSlots \ lab_free)>>

BtSubjects ==
    [T1 |-> Subject("T1", "T1", "theory", 1, 0, FALSE),
     T2 |-> Subject("T2", "T2", "theory", 1, 0, FALSE),
     L1 |-> Subject("L1", "L1", "lab", 2, 2, FALSE),
     LP |-> Subject("L1", "L1", "lab", 2, 2, TRUE),
     MP |-> Subject("MP", "mp", "mini_project", 1, 0, FALSE)]

\* the queues drawn, by the names of their subjects, all of section A
BtQueues ==
    {<<"T1">>, <<"T1", "T2">>, <<"T1", "T2", "T1">>, <<"L1">>, <<"T1", "L1">>,
     <<"LP", "T1">>, <<"T1", "LP", "T2">>, <<"MP", "T1">>, <<"L1", "T1", "T2">>}

TheoryFree ==
    {{}, {<<1, 1>>}, {<<1, 1>>, <<1, 2>>}, {<<1, 1>>, <<2, 1>>, <<1, 3>>}, {<<4, 6>>, <<1, 7>>}}

LabFree ==
    {{}, {<<1, 1>>, <<1, 2>>}, {<<1, 6>>, <<1, 7>>}, {<<1, 2>>, <<1, 3>>, <<1, 4>>, <<2, 5>>, <<2, 6>>}}

MkBtInput(names, theory_free, lab_free) ==
    [sections |-> <<"A">>,
     queue |-> [i \in 1..Len(names) |-> QueueItem("A", BtSubjects[names[i]])],
     faculty_list |-> BtFaculty(theory_free, lab_free),
     room_list |-> <<Room("CR1", "classroom"), Room("CL1", "computer_lab")>>]

BtInputs ==
    {MkBtInput(names, theory_free, lab_free) :
        names \in BtQueues, theory_free \in TheoryFree, lab_free \in LabFree}

InitBacktrack ==
    /\ inp \in BtInputs
    /\ timetable = <<>>
    /\ teacher_schedule = <<>>
    /\ room_schedule = <<>>
    /\ subject_hours_allocated = [k \in {"A"} \X {"T1", "T2", "L1", "MP"} |-> 0]
    /\ last_op = NoOp
    /\ run = [phase |-> "backtrack", stack |-> <<Frame(0, EmptyGrid({"A"}, {"T1", "T2", "L1", "MP"}))>>,
              ret |-> "none", expired |-> FALSE, backtrack_count |-> 0]
    /\ result = NotReturned
    /\ last_block = NoBlock
    /\ previous = NoPrevious
    /\ reports = <<>>

Top == run.stack[Len(run.stack)]

Pop(stack) == SubSeq(stack, 1, Len(stack) - 1)

ReplaceTop(stack, frame) == Append(Pop(stack), frame)

bt_unchanged == <<inp, last_op, result, last_block, previous, reports>>

\* the head of _backtrack_schedule: the timeout check, the base case, the
\* skip of a batch lab, the sorted candidate slots
BtEnter ==
    /\ run.phase = "backtrack"
    /\ run.stack # <<>>
    /\ Top.mode = "enter"
    /\ UNCHANGED <<grid_vars, bt_unchanged>>
    /\ IF run.expired
         THEN run' = [run EXCEPT !.stack = Pop(@), !.ret = "false"]
       ELSE IF Top.index >= Len(inp.queue)
         THEN run' = [run EXCEPT !.stack = Pop(@), !.ret = "true"]
       ELSE IF inp.queue[Top.index + 1].is_parallel_lab
         THEN run' = [run EXCEPT
                 !.stack = Append(ReplaceTop(@, [Top EXCEPT !.mode = "delegate"]),
                                  Frame(Top.index + 1, CurGrid))]
       ELSE \E item \in {inp.queue[Top.index + 1]} :
              run' = [run EXCEPT
                 !.stack = ReplaceTop(@, [Top EXCEPT
                     !.mode = "loop", !.pos = 1,
                     !.slots = sort_by_penalty(get_valid_slots_for_item(CurGrid,
                                   item.section, item.subject, item.duration,
                                   item.is_parallel_lab))])]

\* one iteration of "for day, start_period in available_slots" up to the
\* recursive call, or through the backtrack when the placement failed
BtTrySlot ==
    /\ run.phase = "backtrack"
    /\ run.stack # <<>>
    /\ Top.mode = "loop"
    /\ Top.pos <= Len(Top.slots)
    /\ UNCHANGED bt_unchanged
    /\ \E r \in {BtPlaceFrom(CurGrid, <<>>, Top.slots[Top.pos][2], inp.queue[Top.index + 1],
                             Top.slots[Top.pos][1], Top.slots[Top.pos][2], inp)} :
          IF r.ok
            THEN /\ SetGrid(r.g)
                 /\ run' = [run EXCEPT
                       !.stack = Append(ReplaceTop(@, [Top EXCEPT !.mode = "wait",
                                                          !.entries_added = r.added]),
                                        Frame(Top.index + 1, r.g))]
            ELSE /\ SetGrid(remove_added(r.g, r.added))
                 /\ run' = [run EXCEPT
                       !.stack = ReplaceTop(@, [Top EXCEPT !.pos = @ + 1]),
                       !.backtrack_count = @ + 1]

\* the return of the recursive call with a loop that stays on the slot it
\* has just tried
BtChildReturned_SameSlot ==
    /\ run.phase = "backtrack"
    /\ run.stack # <<>>
    /\ run.ret # "none"
    /\ Top.mode \in {"wait", "delegate"}
    /\ UNCHANGED bt_unchanged
    /\ IF Top.mode = "delegate" \/ run.ret = "true"
         THEN /\ run' = [run EXCEPT !.stack = Pop(@)]
              /\ UNCHANGED grid_vars
         ELSE /\ SetGrid(remove_added(CurGrid, Top.entries_added))
              /\ run' = [run EXCEPT
                    !.stack = ReplaceTop(@, [Top EXCEPT !.mode = "loop",
                                                        !.entries_added = <<>>]),
                    !.ret = "none"]

\* the recursive call returned to the frame that made it
BtChildReturned ==
    /\ run.phase = "backtrack"
    /\ run.stack # <<>>
    /\ run.ret # "none"
    /\ Top.mode \in {"wait", "delegate"}
    /\ UNCHANGED bt_unchanged
    /\ IF Top.mode = "delegate" \/ run.ret = "true"
         THEN /\ run' = [run EXCEPT !.stack = Pop(@)]
              /\ UNCHANGED grid_vars
         ELSE /\ SetGrid(remove_added(CurGrid, Top.entries_added))
              /\ run' = [run EXCEPT
                    !.stack = ReplaceTop(@, [Top EXCEPT !.mode = "loop", !.pos = @ + 1,
                                                        !.entries_added = <<>>]),
                    !.ret = "none",
                    !.backtrack_count = @ + 1]

\* the loop over available_slots ended: return False
BtExhausted ==
    /\ run.phase = "backtrack"
    /\ run.stack # <<>>
    /\ Top.mode = "loop"
    /\ Top.pos > Len(Top.slots)
    /\ run' = [run EXCEPT !.stack = Pop(@), !.ret = "false"]
    /\ UNCHANGED <<grid_vars, bt_unchanged>>

\* time.time() - start_time passes self.timeout_seconds
BtDeadlineExpires ==
    /\ run.phase = "backtrack"
    /\ run.stack # <<>>
    /\ ~run.expired
    /\ run' = [run EXCEPT !.expired = TRUE]
    /\ UNCHANGED <<grid_vars, bt_unchanged>>

NextBacktrack ==
    BtEnter \/ BtTrySlot \/ BtChildReturned \/ BtExhausted \/ BtDeadlineExpires

SpecBacktrack == InitBacktrack /\ [][NextBacktrack]_vars

\* the guards of BtEnter and BtTrySlot; every step of either changes
\* run.stack, so these are ENABLED <<BtEnter>>_vars and ENABLED <<BtTrySlot>>_vars
BtEnterEnabled == run.phase = "backtrack" /\ run.stack # <<>> /\ Top.mode = "enter"

BtTrySlotEnabled ==
    /\ run.phase = "backtrack"
    /\ run.stack # <<>>
    /\ Top.mode = "loop"
    /\ Top.pos <= Len(Top.slots)

\* WF_vars(BtEnter) and WF_vars(BtTrySlot), written out with the guards for
\* the enabling conditions
BtEnterFair == []<>~BtEnterEnabled \/ []<><<BtEnter>>_vars

BtTrySlotFair == []<>~BtTrySlotEnabled \/ []<><<BtTrySlot>>_vars

\* the steps of the interpreter at the end of a loop and after a return
BtRuns == BtChildReturned \/ BtExhausted

\* a call that has not returned keeps running, whether or not the deadline
\* passes: the interpreter executes the next statement of the one thread
SpecBacktrackFair ==
    InitBacktrack /\ [][NextBacktrack]_vars /\ BtEnterFair /\ BtTrySlotFair
    /\ WF_vars(BtRuns)

(***************************************************************************)
(* SpecLongDay: greedy runs of one section whose days hold four periods    *)
(* and more, filled mostly by an audit course (a theory session that may   *)
(* repeat within a day)                                                    *)
(***************************************************************************)

MinAuditHours == 17

MaxAuditHours == 19

MaxElectiveHours == 2

MaxLongT1Hours == 2

\* the arguments of one schedule_greedy call with a long week
MkLongInput(ha, he, h1, hl) ==
    [sections |-> <<"A">>,
     subjects |->
        <<Subject("T1", "T1", "theory", h1, 0, FALSE),
          Subject("L1", "L1", "lab", hl, 2, FALSE),
          Subject("E1", "E1", "elective", he, 0, FALSE),
          Subject("AU", "AU", "audit", ha, 0, FALSE)>>,
     faculty_list |-> <<Faculty("F1", {"T1", "L1", "E1", "AU"}, {})>>,
     room_list |-> <<Room("CR1", "classroom"), Room("CL1", "computer_lab")>>,
     section_batches |-> [x \in {"A"} |-> <<"A1", "A2">>]]

LongInputs ==
    {MkLongInput(ha, he, h1, hl) :
        ha \in MinAuditHours..MaxAuditHours, he \in 0..MaxElectiveHours,
        h1 \in 0..MaxLongT1Hours, hl \in {0, 2}}

InitLongDay ==
    /\ inp \in LongInputs
    /\ timetable = <<>>
    /\ teacher_schedule = <<>>
    /\ room_schedule = <<>>
    /\ subject_hours_allocated = [k \in Range(inp.sections) \X Codes(inp) |-> 0]
    /\ last_op = NoOp
    /\ run = [phase |-> "start"]
    /\ result = NotReturned
    /\ last_block = NoBlock
    /\ previous = NoPrevious
    /\ reports = <<>>

NextLongDay == StartRun \/ EnterSection \/ NextDay \/ FillPeriod \/ FinishRun

SpecLongDay == InitLongDay /\ [][NextLongDay]_vars

(***************************************************************************)
(* SpecLabDay: schedule_greedy on a week long enough for a lab block, with *)
(* a second lab teacher who is away for one period                         *)
(***************************************************************************)

\* the weekly hours of each of the two theory subjects
MinLabDayHours == 5
MaxLabDayHours == 7

\* the periods of Monday and Tuesday at which the second teacher may be away
AwaySlots == {1, 2} \X {3, 4}

MkLabDayInput(h1, h2, away) ==
    [sections |-> <<"A">>,
     subjects |->
        <<Subject("T1", "T1", "theory", h1, 0, FALSE),
          Subject("T2", "T2", "theory", h2, 0, FALSE),
          Subject("L1", "L1", "lab", 2, 2, TRUE)>>,
     faculty_list |-> <<Faculty("F1", {"T1", "T2", "L1"}, {}),
                        Faculty("F2", {"L1"}, {away})>>,
     room_list |-> <<Room("CR1", "classroom"), Room("CL1", "computer_lab"),
                     Room("CL2", "computer_lab")>>,
     section_batches |-> [x \in {"A"} |-> <<"A1", "A2">>]]

LabDayInputs ==
    {MkLabDayInput(h1, h2, away) :
        h1 \in MinLabDayHours..MaxLabDayHours, h2 \in MinLabDayHours..MaxLabDayHours,
        away \in AwaySlots}

InitLabDay ==
    /\ inp \in LabDayInputs
    /\ timetable = <<>>
    /\ teacher_schedule = <<>>
    /\ room_schedule = <<>>
    /\ subject_hours_allocated = [k \in Range(inp.sections) \X Codes(inp) |-> 0]
    /\ last_op = NoOp
    /\ run = [phase |-> "start"]
    /\ result = NotReturned
    /\ last_block = NoBlock
    /\ previous = NoPrevious
    /\ reports = <<>>

NextLabDay == StartRun \/ EnterSection \/ NextDay \/ FillPeriod \/ FinishRun

SpecLabDay == InitLabDay /\ [][NextLabDay]_vars

(***************************************************************************)
(* SpecPlace: _place_single_block and _place_parallel_batch_block called   *)
(* with arbitrary blocks on the grids that earlier calls built             *)
(***************************************************************************)

\* the last period a block may start at
MaxStart == 2

\* the calls are made on grids holding at most this many entries
MaxHeld == 4

PlaceSubjects ==
    {Subject("T1", "T1", "theory", 2, 0, FALSE), Subject("L1", "L1", "lab", 2, 2, FALSE)}

\* the faculty and rooms of the calls; F1 is not available at period 3
PlaceInput ==
    [sections |-> <<"A", "B">>,
     faculty_list |-> <<Faculty("F1", {"T1", "L1"}, {<<1, 3>>}), Faculty("F2", {"L1"}, {})>>,
     room_list |-> <<Room("CR1", "classroom"), Room("CR2", "classroom"),
                     Room("CL1", "computer_lab"), Room("CL2", "computer_lab")>>,
     section_batches |-> [x \in {"A", "B"} |-> IF x = "A" THEN <<"A1", "A2">> ELSE <<"B1", "B2">>]]

\* the blocks a call may ask for
PlaceBlocks ==
    {Block(section, subject, 1, start_period, duration, PlaceInput.section_batches[section]) :
        section \in {"A", "B"}, subject \in PlaceSubjects,
        start_period \in 1..MaxStart, duration \in 1..2}

InitPlace ==
    /\ inp = PlaceInput
    /\ timetable = <<>>
    /\ teacher_schedule = <<>>
    /\ room_schedule = <<>>
    /\ subject_hours_allocated = [k \in {"A", "B"} \X {"T1", "L1"} |-> 0]
    /\ last_op = NoOp
    /\ run = [phase |-> "idle"]
    /\ result = NotReturned
    /\ last_block = NoBlock
    /\ previous = NoPrevious
    /\ reports = <<>>

\* one call of _place_single_block
PlaceSingle ==
    /\ Cardinality(Placed(timetable)) <= MaxHeld
    /\ \E b \in PlaceBlocks :
           \E r \in {place_single_block(CurGrid, b, inp, assign_home_classrooms(inp.sections,
                                                                                inp.room_list))} :
               /\ SetGrid(r.g)
               /\ last_op' = [op |-> "place_single", ok |-> r.ok, block |-> b]
               /\ UNCHANGED greedy_vars

\* one call of _place_parallel_batch_block
PlaceParallel ==
    /\ Cardinality(Placed(timetable)) <= MaxHeld
    /\ \E b \in {x \in PlaceBlocks : x.subject.subject_type = "lab"} :
           \E r \in {place_parallel_batch_block(CurGrid, b, inp)} :
               /\ SetGrid(r.g)
               /\ last_op' = [op |-> "place_parallel", ok |-> r.ok, block |-> b]
               /\ UNCHANGED greedy_vars

NextPlace == PlaceSingle \/ PlaceParallel

SpecPlace == InitPlace /\ [][NextPlace]_vars

(***************************************************************************)
(* SpecBlocks: _build_day_blocks applied to one day's target and fixed     *)
(* periods                                                                 *)
(***************************************************************************)

\* the largest day target drawn
MaxTarget == 9

BlockInputs ==
    {[target |-> target, fixed_periods |-> fixed_periods] :
        target \in 0..MaxTarget, fixed_periods \in SUBSET (1..periods_per_day)}

NoWindow == <<0, 0>>

InitBlocks ==
    /\ inp \in BlockInputs
    /\ timetable = <<>>
    /\ teacher_schedule = <<>>
    /\ room_schedule = <<>>
    /\ subject_hours_allocated = <<>>
    /\ last_op = NoOp
    /\ run = [phase |-> "idle", window |-> NoWindow]
    /\ result = NotReturned
    /\ last_block = NoBlock
    /\ previous = NoPrevious
    /\ reports = <<>>

\* blocks[day] = (start_p, end_p) for the day drawn
BuildDayBlock ==
    /\ run.phase = "idle"
    /\ run' = [phase |-> "built", window |-> day_block(inp.target, inp.fixed_periods)]
    /\ UNCHANGED <<grid_vars, inp, last_op, result, last_block, previous, reports>>

NextBlocks == BuildDayBlock

SpecBlocks == InitBlocks /\ [][NextBlocks]_vars

(***************************************************************************)
(* SpecGridValidate: grids built by add_entry calls, then handed to the    *)
(* validator                                                               *)
(***************************************************************************)

\* subjects_config of the entries drawn
GridSubjects ==
    <<Subject("T1", "T1", "theory", 1, 0, FALSE), Subject("L1", "L1", "lab", 2, 2, TRUE),
      Subject("L2", "L2", "lab", 2, 2, TRUE)>>

\* validator.validate(scheduler.timetable, subjects_config, sections) on the
\* grid as it stands; the grid is not touched afterwards
ValidateGrid ==
    /\ reports = <<>>
    /\ reports' = <<validate(timetable, <<"A", "B">>, GridSubjects, <<"A", "B">>)>>
    /\ timetable' = timetable_after_validate(timetable, <<"A", "B">>)
    /\ last_op' = [op |-> "validate", ok |-> TRUE]
    /\ UNCHANGED <<teacher_schedule, room_schedule, subject_hours_allocated,
                   inp, run, result, last_block, previous>>

NextGridValidate == (reports = <<>> /\ AddEntry) \/ ValidateGrid

SpecGridValidate == InitGrid /\ [][NextGridValidate]_vars

(***************************************************************************)
(* Grid invariants (spec section 3, invariants 1-4)                        *)
(***************************************************************************)

PairwiseDistinctBatches(L) ==
    \A i, j \in 1..Len(L) : i # j => L[i].batch # L[j].batch

\* C3: every (section, slot) list is one placement without a batch tag, or
\* placements with pairwise distinct batch tags sharing one subject code.
C3_SectionSlotShape ==
    \A k \in DOMAIN timetable :
        LET L == timetable[k] IN
        \/ Len(L) = 1 /\ L[1].batch = NoBatch
        \/ /\ \A i \in 1..Len(L) : L[i].batch # NoBatch
           /\ PairwiseDistinctBatches(L)
           /\ \A i, j \in 1..Len(L) : L[i].subject_code = L[j].subject_code

\* C4: a faculty member holds more than one placement at a slot only if
\* they all belong to one section and one subject code and carry pairwise
\* distinct batch tags.
C4_TeacherParallelOnly ==
    \A k \in DOMAIN teacher_schedule :
        LET L == teacher_schedule[k] IN
        Len(L) > 1 =>
            /\ \A i \in 1..Len(L) : L[i].batch # NoBatch
            /\ PairwiseDistinctBatches(L)
            /\ \A i, j \in 1..Len(L) :
                  /\ L[i].section = L[j].section
                  /\ L[i].subject_code = L[j].subject_code

DayPlacements(tt, sec, day, code) ==
    {<<k, i>> \in UNION {{k} \X (1..Len(tt[k])) : k \in DOMAIN tt} :
        /\ k[1] = sec
        /\ k[2] = day
        /\ tt[k][i].subject_code = code}

TheoryKeys(tt) ==
    {<<e.section, e.day, e.subject_code>> : e \in {x \in Placed(tt) : x.subject_type = "theory"}}

Succeeded == result.status = "success"

\* C1: whenever schedule_greedy reports success, the validator run on the
\* returned grid with the same catalog and sections finds no hard violation
C1_SuccessIsValid ==
    Succeeded => is_valid(timetable, inp.subjects, inp.sections)

\* C2: whenever schedule_greedy returns success, every section holds, for
\* every subject of the input, exactly hours_per_week distinct slots (so
\* unmet hours mean failure, never success)
C2_SuccessMeetsHours ==
    Succeeded =>
        \A section \in Range(inp.sections), subject \in Range(inp.subjects) :
            Cardinality({k \in DOMAIN timetable :
                            /\ k[1] = section
                            /\ \E e \in Range(timetable[k]) : e.subject_code = subject.code})
                = subject.hours_per_week

\* the block the last FillPeriod step placed
BlockPlaced == last_block.kind \in {"single", "parallel"}

\* the periods of the block's day that hold the block's subject from the
\* block's start on
BlockPeriods ==
    {k[3] : k \in {x \in DOMAIN timetable :
                      /\ x[1] = last_block.section
                      /\ x[2] = last_block.day
                      /\ x[3] >= last_block.start_period
                      /\ \E e \in Range(timetable[x]) : e.subject_code = last_block.code}}

\* C7: every block placed for a lab subject, whatever its lab_duration,
\* occupies exactly two consecutive periods, starts at period 1, 3 or 5 and
\* ends inside the day's window, so within periods_per_day
C7_LabBlockTwoPeriods ==
    (BlockPlaced /\ SubjectOf(inp.subjects, last_block.code).subject_type = "lab") =>
        /\ BlockPeriods = {last_block.start_period, last_block.start_period + 1}
        /\ last_block.start_period \in {1, 3, 5}
        /\ last_block.start_period + 1 <= last_block.end_p
        /\ last_block.start_period + 1 <= periods_per_day

\* the placements of the block's subject at period p of the block's day
BlockEntriesAt(p) ==
    {e \in Range(Lookup(timetable, <<last_block.section, last_block.day, p>>)) :
        e.subject_code = last_block.code}

\* C8: after _place_parallel_batch_block succeeded, each of the two periods of
\* the block holds exactly one placement per batch of the section, and the
\* placements of one period use pairwise distinct rooms
C8_ParallelBlockPerBatch ==
    last_block.kind = "parallel" =>
        \A p \in {last_block.start_period, last_block.start_period + 1} :
            /\ \A bt \in Range(last_block.batches) :
                  Cardinality({e \in BlockEntriesAt(p) : e.batch = bt}) = 1
            /\ {e.batch : e \in BlockEntriesAt(p)} = Range(last_block.batches)
            /\ \A e1 \in BlockEntriesAt(p), e2 \in BlockEntriesAt(p) :
                  e1 # e2 => e1.room_number # e2.room_number

\* C9: whenever schedule_greedy returns success, the occupied periods of every
\* section and day form a contiguous range
C9_SuccessHasNoGaps ==
    Succeeded =>
        \A section \in Range(inp.sections), day \in Days :
            \A p1 \in 1..periods_per_day, p2 \in 1..periods_per_day, p3 \in 1..periods_per_day :
                (/\ p1 < p2 /\ p2 < p3
                 /\ Occupied(CurGrid, section, day, p1)
                 /\ Occupied(CurGrid, section, day, p3))
                    => Occupied(CurGrid, section, day, p2)

\* the next fixed slot has no qualified free faculty or no room
FixedSlotBlocked ==
    /\ run.phase = "fixed"
    /\ run.fixed_queue # <<>>
    /\ \E job \in {Head(run.fixed_queue)} :
          \/ get_available_faculty(CurGrid, job.code, job.day, job.period,
                                   inp.faculty_list, FALSE, job.section) = <<>>
          \/ select_room_for_subject(CurGrid, job.section,
                                     SubjectOf(inp.subjects, job.code), job.day,
                                     job.period, inp.room_list, run.home_rooms) = NoRoom

OnlyFixedPlaced(tt) ==
    \A e \in Placed(tt) : IsFixedSubject(SubjectOf(inp.subjects, e.subject_code))

\* C10: when a fixed slot has no qualified free faculty or no room,
\* schedule_greedy returns failure at that step, no non-fixed subject having
\* been placed for any section
C10_FixedFailureIsImmediate ==
    [][FixedSlotBlocked =>
          /\ result'.status = "failure"
          /\ run'.phase = "done"
          /\ OnlyFixedPlaced(timetable')]_vars

\* two sections and one yoga instructor: the second section's Wednesday
\* period 6 failed after the first section's was placed
C10_Witness ==
    /\ result = [status |-> "failure", site |-> "fixed"]
    /\ last_block.kind = "fixed_failed"
    /\ last_block.section = "B"
    /\ last_block.day = Wednesday
    /\ last_block.start_period = 6
    /\ Placed(timetable) # {}
    /\ OnlyFixedPlaced(timetable)

\* the slots the spec mandates for a fixed label
MandatedSlots(short_name) ==
    IF short_name = "YOGA" THEN {<<Wednesday, 6>>}
    ELSE IF short_name = "CLUB" THEN {<<Wednesday, 7>>}
    ELSE IF short_name \in {"MP", "PP1"} THEN {<<Thursday, 6>>, <<Thursday, 7>>}
    ELSE {}

\* C11: whenever schedule_greedy returns success, every section holds at
\* each mandated slot of each fixed subject of the input that subject and
\* nothing else; and a slot holding a fixed subject never holds another
\* placement
C11_FixedSlotsHoldFixedSubjects ==
    /\ Succeeded =>
          \A section \in Range(inp.sections), subject \in Range(inp.subjects) :
              \A sl \in MandatedSlots(subject.short_name) :
                  /\ Lookup(timetable, <<section, sl[1], sl[2]>>) # <<>>
                  /\ \A e \in Range(Lookup(timetable, <<section, sl[1], sl[2]>>)) :
                        e.subject_code = subject.code
    /\ run.phase # "start" =>
          \A k \in DOMAIN timetable :
              (\E e \in Range(timetable[k]) :
                  IsFixedSubject(SubjectOf(inp.subjects, e.subject_code)))
                    => Len(timetable[k]) = 1

\* a successful run of two sections with yoga and the mini project, other
\* subjects placed on Wednesday and Thursday as well
C11_Witness ==
    /\ Succeeded
    /\ Len(inp.sections) = 2
    /\ \E x \in Range(inp.subjects) : x.short_name = "MP"
    /\ \A section \in Range(inp.sections) : \A d \in {Wednesday, Thursday} :
          \E k \in DOMAIN timetable :
              /\ k[1] = section /\ k[2] = d
              /\ \E e \in Range(timetable[k]) :
                    ~IsFixedSubject(SubjectOf(inp.subjects, e.subject_code))

(***************************************************************************)
(* add_entry / remove_entry as a pair                                      *)
(***************************************************************************)

\* C12: for every reachable grid and every placement add_entry accepts,
\* add_entry followed by remove_entry of that placement gives back the
\* section, faculty and room occupancy and the hour counters of before
C12_RemoveUndoesAdd ==
    \A entry \in GridEntries :
        add_entry(CurGrid, entry).ok =>
            remove_entry(add_entry(CurGrid, entry).g, entry) = CurGrid

\* a grid that accepts a placement on a section slot already holding one
\* (a second batch), after an accepted add
C12_Witness ==
    /\ last_op = [op |-> "add", ok |-> TRUE]
    /\ \E entry \in GridEntries :
          /\ add_entry(CurGrid, entry).ok
          /\ Lookup(timetable, SecKey(entry)) # <<>>
          /\ Lookup(teacher_schedule, FacKey(entry)) # <<>>

\* C13: a rejected add_entry leaves the section, faculty and room occupancy
\* and the hour counters unchanged
C13_RejectedAddChangesNothing ==
    [][(last_op' = [op |-> "add", ok |-> FALSE]) => UNCHANGED grid_vars]_vars

\* a rejected add on a grid holding two placements
C13_Witness ==
    /\ last_op = [op |-> "add", ok |-> FALSE]
    /\ Cardinality(Placed(timetable)) >= 2
    /\ \E k \in DOMAIN subject_hours_allocated : subject_hours_allocated[k] > 0

\* invariant 5 on lab starts: a lab placement at period 2 or 4 continues a
\* block of its subject that holds the period before
LabStartsOk(tt) ==
    \A e \in Placed(tt) :
        (e.subject_type = "lab" /\ e.period \in {2, 4}) =>
            \E e0 \in Placed(tt) :
                /\ e0.section = e.section
                /\ e0.day = e.day
                /\ e0.subject_code = e.subject_code
                /\ e0.period = e.period - 1

\* C14: add_entry inserts a placement only if the grid invariants still hold
\* afterwards; in particular an accepted add_entry never makes a lab block
\* start at period 2 or 4
C14_AddKeepsLabStarts ==
    [][(last_op' = [op |-> "add", ok |-> TRUE] /\ LabStartsOk(timetable))
          => LabStartsOk(timetable')]_vars

(***************************************************************************)
(* The hour counters                                                       *)
(***************************************************************************)

\* C15: the hour counter of a (section, subject) equals the number of
\* distinct slots the section holds for the subject, so a two-period parallel
\* lab block raises it by 2 whatever the number of batches
C15_HoursCountSlots ==
    \A section \in Range(inp.sections), subject \in Range(inp.subjects) :
        subject_hours_allocated[<<section, subject.code>>]
            = Cardinality(subject_slots(timetable, section, subject.code))

(***************************************************************************)
(* The three indexes                                                       *)
(***************************************************************************)

\* C16: in every state reachable by add_entry and by remove_entry of
\* placements added before, a placement is listed under its (section, slot)
\* if and only if it is listed under its (faculty, slot) and under its
\* (room, slot)
C16_IndexesAgree ==
    /\ \A k \in DOMAIN timetable : \A e \in Range(timetable[k]) :
          /\ k = SecKey(e)
          /\ e \in Range(Lookup(teacher_schedule, FacKey(e)))
          /\ e \in Range(Lookup(room_schedule, RoomKey(e)))
    /\ \A k \in DOMAIN teacher_schedule : \A e \in Range(teacher_schedule[k]) :
          /\ k = FacKey(e)
          /\ e \in Range(Lookup(timetable, SecKey(e)))
    /\ \A k \in DOMAIN room_schedule : \A e \in Range(room_schedule[k]) :
          /\ k = RoomKey(e)
          /\ e \in Range(Lookup(timetable, SecKey(e)))

\* a removal that left another placement of the same faculty slot behind
C16_Witness ==
    /\ last_op = [op |-> "remove", ok |-> TRUE]
    /\ \E k \in DOMAIN teacher_schedule : teacher_schedule[k] # <<>>
    /\ Placed(timetable) # {}

\* the room list holds fewer classrooms than there are sections
TooFewClassrooms ==
    Cardinality({i \in 1..Len(inp.room_list) : inp.room_list[i].room_type = "classroom"})
        < Len(inp.sections)

\* C17: when the room list holds fewer classrooms than there are sections,
\* schedule_greedy raises the input error and no placement has been added:
\* every section's grid is empty when the error surfaces
C17_TooFewClassroomsRaises ==
    (run.phase # "start" /\ TooFewClassrooms) =>
        /\ run.phase = "done"
        /\ result = [status |-> "error", site |-> "home_rooms"]
        /\ Placed(timetable) = {}
        /\ \A k \in DOMAIN timetable : timetable[k] = <<>>

C17_Witness ==
    /\ TooFewClassrooms
    /\ Len(inp.sections) = 2
    /\ result.status = "error"
    /\ Placed(timetable) = {}

\* some subject with hours_per_week > 0 has no faculty member whose subject
\* list holds its code
UnstaffedSubject ==
    \E i \in 1..Len(inp.subjects) :
        /\ inp.subjects[i].hours_per_week > 0
        /\ \A j \in 1..Len(inp.faculty_list) :
              inp.subjects[i].code \notin inp.faculty_list[j].subjects

\* C18: when a subject with hours_per_week > 0 has no qualified faculty
\* member in the pool, the run ends with an input error: it does not report
\* success and it leaves no placement in the grid
C18_UnstaffedSubjectIsInputError ==
    (run.phase = "done" /\ UnstaffedSubject) =>
        /\ result.status = "error"
        /\ Placed(timetable) = {}

ClassroomNumbers ==
    {inp.room_list[i].number :
        i \in {j \in 1..Len(inp.room_list) : inp.room_list[j].room_type = "classroom"}}

\* the i-th classroom in lexical order, for the i-th section in lexical order
HomeClassroomOf(section) ==
    CHOOSE c \in ClassroomNumbers :
        Cardinality({d \in ClassroomNumbers : Rank(d) < Rank(c)})
            = Cardinality({x \in Range(inp.sections) : Rank(x) < Rank(section)})

TheoryLike(e) ==
    SubjectOf(inp.subjects, e.subject_code).subject_type \in {"theory", "audit", "tyl", "9lpa"}

\* C19: in the grid of a successful greedy run, every placement of a theory,
\* audit, tyl or 9lpa subject is in the home classroom of its section (the
\* i-th classroom in lexical order for the i-th section in lexical order),
\* or in another classroom at a slot where the home classroom holds another
\* placement
C19_TheoryInHomeClassroom ==
    Succeeded =>
        \A e \in Placed(timetable) :
            TheoryLike(e) =>
                \/ e.room_number = HomeClassroomOf(e.section)
                \/ /\ e.room_number \in ClassroomNumbers
                   /\ \E o \in Placed(timetable) :
                         /\ o # e
                         /\ o.room_number = HomeClassroomOf(e.section)
                         /\ o.day = e.day /\ o.period = e.period

C19_Witness ==
    /\ Succeeded
    /\ Len(inp.sections) = 2
    /\ \E a, b \in Placed(timetable) :
          /\ TheoryLike(a) /\ a.section = "A" /\ a.room_number = "CR1"
          /\ TheoryLike(b) /\ b.section = "B" /\ b.room_number = "CR2"
          /\ a.day = b.day /\ a.period = b.period

\* C20: a second schedule_greedy call with the same arguments, made on the
\* scheduler object that holds the state of the first call, returns the same
\* success flag (or raises the same error) and the same grid as the first
C20_RerunIsIdentical ==
    (run.phase = "done" /\ previous # NoPrevious) =>
        /\ result.status = previous.status
        /\ timetable = previous.timetable
        /\ Placed(timetable) = previous.entries

C20_Witness ==
    /\ run.phase = "done"
    /\ previous # NoPrevious
    /\ previous.status = "success"
    /\ Len(inp.sections) = 2
    /\ Cardinality(previous.entries) >= 4
    /\ Placed(timetable) = previous.entries

OccupiedPeriod(tt, section, day, p) ==
    <<section, day, p>> \in DOMAIN tt /\ tt[<<section, day, p>>] # <<>>

\* an empty period strictly between an earlier and a later class of the day
InternalGap(tt, section, day, p) ==
    /\ ~OccupiedPeriod(tt, section, day, p)
    /\ \E a \in 1..(p - 1) : OccupiedPeriod(tt, section, day, a)
    /\ \E b \in (p + 1)..periods_per_day : OccupiedPeriod(tt, section, day, b)

\* C22: for every section of the validated list and every day, each empty
\* period strictly between the section's earliest and latest occupied period
\* of the day is in the report as a hard violation of type gap, and the
\* report of such a timetable has is_valid false
C22_EveryGapReported ==
    \A i \in 1..Len(reports) :
        \A section \in Range(inp.sections), day \in Days, p \in 1..periods_per_day :
            InternalGap(inp.grid, section, day, p) =>
                /\ [type |-> "gap", at |-> <<section, day, p>>] \in reports[i].hard_violations
                /\ ~reports[i].is_valid

C22_Witness ==
    /\ reports # <<>>
    /\ InternalGap(inp.grid, "A", 1, 2)
    /\ InternalGap(inp.grid, "A", 1, 3)
    /\ Cardinality({h \in reports[1].hard_violations : h.type = "gap"}) = 2

\* C23: the score of a report is 1000 minus 100 for each of its hard
\* violations minus the sum of the penalties of its soft violations, and
\* is_valid is true exactly when the report has no hard violation
C23_ScoreFormula ==
    \A i \in 1..Len(reports) :
        /\ reports[i].score =
              1000 - 100 * Cardinality(reports[i].hard_violations)
                   - SumPenalties(reports[i].soft_violations)
        /\ reports[i].is_valid <=> reports[i].hard_violations = {}

C23_Witness ==
    /\ reports # <<>>
    /\ Cardinality(reports[1].hard_violations) >= 2
    /\ Cardinality(reports[1].soft_violations) >= 2
    /\ SumPenalties(reports[1].soft_violations) > Cardinality(reports[1].soft_violations)
    /\ ~reports[1].is_valid

\* C24: when the validator finds a hard violation on the grid of a run that
\* the scheduler reported as successful, the engine does not emit that grid
\* with success = true
C24_InvalidGridFailsLoudly ==
    run.phase = "emitted" => ~(run.response.success /\ ~run.response.is_valid)

\* C25: once the deadline has expired, a greedy run that has filled a day
\* block and has further days to fill stops there: its next step returns
\* failure (with the grid as filled so far) and no further day is begun
C25_DeadlineStopsGreedy ==
    [][(/\ run.phase = "fill"
        /\ run.day < NumDays
        /\ run.period > run.day_blocks[run.day][2]
        /\ run.expired)
       => (run'.phase = "done" /\ result'.status = "failure")]_vars

\* C26: the hybrid strategy runs the evolutionary search only after the
\* backtracking search has run and failed, and the backtracking search only
\* after the greedy placer has failed
C26_HybridTriesBacktrackingBeforeGA ==
    run.phase = "hybrid" =>
        /\ run.stages[1] = "greedy"
        /\ \A i \in 1..Len(run.stages) :
              run.stages[i] = "genetic" => i > 1 /\ run.stages[i - 1] = "backtracking"

\* C27: whenever a call of _backtrack_schedule returns failure (its slots
\* are exhausted, or the deadline had expired when it was entered, at any
\* depth), the grid, the two indexes and the hour counters are what they
\* were when that call was entered
C27_FailedCallRestoresGrid ==
    [][(/\ run.phase = "backtrack"
        /\ run.stack # <<>>
        /\ run'.stack = Pop(run.stack)
        /\ run'.ret = "false")
       => /\ timetable' = Top.g0.tt
          /\ teacher_schedule' = Top.g0.ts
          /\ room_schedule' = Top.g0.rs
          /\ subject_hours_allocated' = Top.g0.hrs]_vars

C27_Witness ==
    /\ run.phase = "backtrack"
    /\ run.stack = <<>>
    /\ run.ret = "false"
    /\ run.expired
    /\ run.backtrack_count >= 2
    /\ Placed(timetable) = {}

\* C28: the candidate slots that _get_valid_slots_for_item returns for a lab
\* of duration 2 start at period 1, 3 or 5, on every day
C28_LabCandidatesStartOdd ==
    (run.phase = "backtrack" /\ run.stack # <<>>) =>
        \A i \in 1..Len(run.stack) :
            (/\ run.stack[i].mode \in {"loop", "wait"}
             /\ inp.queue[run.stack[i].index + 1].subject.subject_type = "lab"
             /\ inp.queue[run.stack[i].index + 1].duration = 2)
            => \A k \in 1..Len(run.stack[i].slots) : run.stack[i].slots[k][2] \in {1, 3, 5}

\* the codes that reach the scoring line of the selector at the slot the
\* run is about to fill
Candidates ==
    {c \in Range(run.rr_state.codes) :
        /\ run.rr_state.remaining[c] > 0
        /\ Survives(CurGrid, inp, run.home_rooms, run.rr_state, run.secs[run.sec_idx],
                    run.day, run.period, run.day_blocks[run.day][2], c)}

NonExceeding ==
    {c \in Candidates : ~ExceedsTheory(SubjectOf(inp.subjects, c), run.consecutive_theory)}

SelectorScore(c) == run.rr_state.current[c] + run.rr_state.weights[c]

SelectorCalled ==
    /\ run.phase = "fill"
    /\ run.day <= NumDays
    /\ run.period <= run.day_blocks[run.day][2]
    /\ ~Occupied(CurGrid, run.secs[run.sec_idx], run.day, run.period)

\* C29: when the selector is called for a slot, a subject it returns is a
\* candidate of that slot; when some candidate does not push the run of
\* theory sessions past max_consecutive_theory, the subject returned is one
\* of those, with the largest current + weight among them and, among equal
\* scores, the lexically smallest code; so a subject that exceeds the limit
\* is returned only when no candidate stays within it
C29_SelectorPicksBestNonExceeding ==
    [][SelectorCalled =>
         /\ last_block'.code # NoChoice => last_block'.code \in Candidates
         /\ NonExceeding # {} =>
               /\ last_block'.code \in NonExceeding
               /\ \A c \in NonExceeding :
                     \/ SelectorScore(last_block'.code) > SelectorScore(c)
                     \/ /\ SelectorScore(last_block'.code) = SelectorScore(c)
                        /\ Rank(last_block'.code) <= Rank(c)]_vars

\* the selector was called where a theory session would have been the
\* fourth in a row and a candidate within the limit existed: it was taken
C29_Witness ==
    /\ run.phase = "fill"
    /\ last_block.kind = "single"
    /\ last_block.code = "E1"
    /\ last_block.start_period = 5
    /\ \A p \in 2..4 :
          /\ <<"A", last_block.day, p>> \in DOMAIN timetable
          /\ \A e \in Range(timetable[<<"A", last_block.day, p>>]) : e.subject_code = "AU"

\* the number of distinct slots of a section that hold an entry of a subject
SlotsHeld(section, code) ==
    Cardinality({k \in DOMAIN timetable :
                    k[1] = section /\ \E e \in Range(timetable[k]) : e.subject_code = code})

\* C30: in every state of a greedy run the remaining hours of every
\* non-fixed subject are at least 0 and no section of the run holds more
\* distinct slots of a non-fixed subject than its hours_per_week; and the
\* selector returns a subject only when its remaining hours are at least its
\* duration
C30_RemainingBoundsPlacements ==
    /\ [](/\ "rr_state" \in DOMAIN run =>
                \A c \in DOMAIN run.rr_state.remaining : run.rr_state.remaining[c] >= 0
          /\ \A section \in Range(inp.sections) : \A x \in Range(inp.subjects) :
                ~IsFixedSubject(x) => SlotsHeld(section, x.code) <= x.hours_per_week)
    /\ [][(SelectorCalled /\ last_block'.code # NoChoice) =>
             run.rr_state.remaining[last_block'.code]
                >= subject_duration(SubjectOf(inp.subjects, last_block'.code))]_vars

\* a run ended with a subject of two hours or more placed in full: its
\* remaining hours are 0 and its section holds hours_per_week slots of it
C30_Witness ==
    /\ run.phase = "done"
    /\ result.status = "success"
    /\ "rr_state" \in DOMAIN run
    /\ \E x \in Range(inp.subjects) :
          /\ ~IsFixedSubject(x)
          /\ x.hours_per_week >= 2
          /\ run.rr_state.remaining[x.code] = 0
          /\ SlotsHeld(run.secs[run.sec_idx], x.code) = x.hours_per_week

\* C31: a call of _place_single_block or _place_parallel_batch_block that
\* returns failure leaves the grid, the faculty index, the room index and the
\* hour counters as they were before the call
C31_FailedPlacementRestoresGrid ==
    [][(last_op'.op \in {"place_single", "place_parallel"} /\ ~last_op'.ok)
       => UNCHANGED grid_vars]_vars

\* a failed call whose block would have been placed had it been one period
\* long: the first period was added and removed again
C31_Witness ==
    /\ last_op.op \in {"place_single", "place_parallel"}
    /\ ~last_op.ok
    /\ last_op.block.duration = 2
    /\ IF last_op.op = "place_single"
         THEN place_single_block(CurGrid, [last_op.block EXCEPT !.duration = 1], inp,
                                 assign_home_classrooms(inp.sections, inp.room_list)).ok
         ELSE place_parallel_batch_block(CurGrid, [last_op.block EXCEPT !.duration = 1],
                                         inp).ok

\* C32: the window of a day lies within [1, periods_per_day], contains every
\* fixed period of the day and has at least min(target, periods_per_day)
\* periods
C32_WindowCoversFixedAndTarget ==
    run.phase = "built" =>
        /\ 1 <= run.window[1]
        /\ run.window[2] <= periods_per_day
        /\ run.window[1] \in 1..periods_per_day
        /\ run.window[2] \in 1..periods_per_day
        /\ \A p \in inp.fixed_periods : run.window[1] <= p /\ p <= run.window[2]
        /\ run.window[2] - run.window[1] + 1 >= Min2(inp.target, periods_per_day)

\* a day of five periods whose only fixed period is the fifth: the window was
\* widened to the first period
C32_Witness ==
    /\ run.phase = "built"
    /\ inp.target = 5
    /\ inp.fixed_periods = {5}
    /\ run.window = <<1, 5>>

\* the window the target table assigns to a target, clipped
DefaultWindow(target) ==
    <<IF target >= 6 THEN 1 ELSE 2,
      Min2(periods_per_day,
           IF target >= 6 THEN target
           ELSE IF target = 5 THEN 6
           ELSE IF target = 4 THEN 5
           ELSE target + 1)>>

\* C33: the window of a day contains the default window of its target: the
\* fixed periods only lower the start or raise the end
C33_WindowContainsDefault ==
    run.phase = "built" =>
        /\ run.window[1] <= DefaultWindow(inp.target)[1]
        /\ run.window[2] >= DefaultWindow(inp.target)[2]

\* a slot's list that is one non-batch placement, or placements of distinct
\* batches sharing one subject code
WellFormedSlot(entries) ==
    \/ Len(entries) = 1 /\ entries[1].batch = NoBatch
    \/ /\ \A i \in 1..Len(entries) : entries[i].batch # NoBatch
       /\ \A i, j \in 1..Len(entries) :
             /\ i # j => entries[i].batch # entries[j].batch
             /\ entries[i].subject_code = entries[j].subject_code

\* C34: the validator's report holds a section_clash for every slot of a
\* section whose list is not well formed, in whatever order the list holds
\* its placements
C34_EveryIllFormedSlotReported ==
    last_op.op = "validate" =>
        \A k \in DOMAIN timetable :
            ~WellFormedSlot(timetable[k]) =>
                \E v \in reports[1].hard_violations :
                    v.type = "section_clash" /\ v.at[1] = k

\* C39: a grid built from the empty grid by add_entry calls is reported by
\* the validator with no section_clash, no teacher_clash and no room_clash
C39_AcceptedGridHasNoClash ==
    last_op.op = "validate" =>
        \A v \in reports[1].hard_violations :
            v.type \notin {"section_clash", "teacher_clash", "room_clash"}

\* periods lo..hi of a day all hold theory of the section and the periods
\* next to them do not
MaximalTheoryRun(tt, section, day, lo, hi) ==
    /\ lo <= hi
    /\ \A p \in lo..hi : TheoryAt(tt, section, day, p)
    /\ lo = 1 \/ ~TheoryAt(tt, section, day, lo - 1)
    /\ hi = periods_per_day \/ ~TheoryAt(tt, section, day, hi + 1)

\* the consecutive_theory penalties a report holds for periods lo..hi
RunPenalty(report, section, day, lo, hi) ==
    SumPenalties({v \in report.soft_violations :
                    /\ v.type = "consecutive_theory"
                    /\ v.at[1] = section /\ v.at[2] = day /\ v.at[3] \in lo..hi})

\* C35: for a maximal run of L theory periods of one section on one day,
\* L above max_consecutive_theory, the consecutive-theory penalties of the
\* report sum to 5 * (L - max_consecutive_theory)
C35_RunPenaltyIsFivePerExcess ==
    \A i \in 1..Len(reports) :
        \A section \in {k[1] : k \in DOMAIN timetable}, day \in Days :
            \A lo, hi \in 1..periods_per_day :
                (/\ MaximalTheoryRun(timetable, section, day, lo, hi)
                 /\ hi - lo + 1 > max_consecutive_theory)
                    => RunPenalty(reports[i], section, day, lo, hi)
                         = 5 * (hi - lo + 1 - max_consecutive_theory)

\* the periods of a day at which a section's slot holds the lab subject
LabPeriods(tt, section, code, day) ==
    {p \in 1..periods_per_day :
        /\ <<section, day, p>> \in DOMAIN tt
        /\ \E e \in Range(tt[<<section, day, p>>]) :
              e.subject_type = "lab" /\ e.subject_code = code}

\* the batch tags of the lab subject's placements in one slot
TagsAt(tt, section, code, day, p) ==
    {e.batch : e \in {x \in Range(tt[<<section, day, p>>]) :
                        /\ x.subject_type = "lab" /\ x.subject_code = code
                        /\ x.batch # NoBatch}}

\* the lab occupies periods s and s + 1 only, s one of 1, 3, 5, with the
\* same batch tags in both
ProperLabBlock(tt, section, code, day) ==
    \E s \in {1, 3, 5} :
        /\ LabPeriods(tt, section, code, day) = {s, s + 1}
        /\ TagsAt(tt, section, code, day, s) = TagsAt(tt, section, code, day, s + 1)

\* C36: for a section, a lab subject and a day the lab is placed on, the
\* report holds a lab_block violation exactly when the placements are not
\* a block of two consecutive periods starting at 1, 3 or 5 with the same
\* batch tags in both periods
C36_LabBlockReportedExactlyWhenBroken ==
    \A i \in 1..Len(reports) :
        \A section \in Range(inp.sections), day \in Days :
            \A code \in {e.subject_code : e \in Placed(timetable)} :
                LabPeriods(timetable, section, code, day) # {} =>
                    ((\E v \in reports[i].hard_violations :
                         /\ v.type = "lab_block"
                         /\ v.at[1] = section /\ v.at[2] = day /\ v.at[3] = code)
                     <=> ~ProperLabBlock(timetable, section, code, day))

\* a report on a lab at periods 2 and 3 with the same batches in both: the
\* only thing wrong with it is the period it starts at
C36_Witness ==
    /\ reports # <<>>
    /\ LabPeriods(timetable, "A", "L1", 2) = {2, 3}
    /\ TagsAt(timetable, "A", "L1", 2, 2) = TagsAt(timetable, "A", "L1", 2, 3)
    /\ \E v \in reports[1].hard_violations :
          v.type = "lab_block" /\ v.at[1] = "A" /\ v.at[3] = "L1"

\* C37: the placement that follows a choice of the subject selector
\* succeeds, so schedule_greedy never returns failure from the placement
\* step of the fill loop
C37_ChosenBlockIsPlaced ==
    /\ last_block.kind # "place_failed"
    /\ ~(result.status = "failure" /\ result.site = "place")

\* the selector chose a subject for a slot of the fill loop and the grid
\* holds the block at every period of it
C37_Witness ==
    /\ run.phase = "fill"
    /\ last_block.kind \in {"single", "parallel"}
    /\ last_block.duration = 2
    /\ \A p \in last_block.start_period..(last_block.start_period + 1) :
          /\ <<last_block.section, last_block.day, p>> \in DOMAIN timetable
          /\ \A e \in Range(timetable[<<last_block.section, last_block.day, p>>]) :
                e.subject_code = last_block.code

\* C38: in a grid built by the greedy placer the second period of every
\* two-period lab block holds, for each batch (or for the section, without batches), the
\* faculty member and the room of the block's first period
C38_LabBlockKeepsFacultyAndRoom ==
    \A k \in DOMAIN timetable :
        \A e \in Range(timetable[k]) :
            (/\ e.subject_type = "lab"
             /\ e.is_lab_continuation
             /\ SubjectOf(inp.subjects, e.subject_code).lab_duration = 2) =>
                /\ <<k[1], k[2], k[3] - 1>> \in DOMAIN timetable
                /\ \E f \in Range(timetable[<<k[1], k[2], k[3] - 1>>]) :
                      /\ f.subject_code = e.subject_code
                      /\ f.batch = e.batch
                      /\ f.faculty_id = e.faculty_id
                      /\ f.room_number = e.room_number

\* C40: the outermost call of _backtrack_schedule returns, True or False,
\* whether or not the deadline ever expires
C40_BacktrackReturns == <>(run.stack = <<>> /\ run.ret \in {"true", "false"})

\* the search returned failure before the deadline, after it had taken
\* placements back
C40_Witness ==
    /\ run.stack = <<>>
    /\ run.ret = "false"
    /\ ~run.expired
    /\ run.backtrack_count > 1

====
